---- MODULE Spec2Model ----
(***************************************************************************)
(* Model of zipline's Pipeline container (zipline/pipeline/pipeline.py):   *)
(* the column mapping, the screen, the prescreen pushdown performed by     *)
(* _maybe_convert_to_prescreen, domain resolution and the compilation to   *)
(* a graph; of the Classifier methods that build filters and terms         *)
(* (zipline/pipeline/classifiers/classifier.py); of the data bundle        *)
(* registry with ingest and load (zipline/data/bundles/core.py); of the    *)
(* minute simulation clock read by zipline/_tests/test_clock.py; and of    *)
(* the price validation of the execution styles                            *)
(* (zipline/finance/execution.py).                                         *)
(*                                                                         *)
(* Python values are modelled as records of one shape per kind so that any *)
(* two values can be compared.  A Python string that the code treats as    *)
(* text (NumExprFilter._expr) is a sequence of tokens: "(", ")", "~",      *)
(* " & ", " | ", " != ", " == ", a variable name "x_i" or a number.  The   *)
(* code only ever removes "(", ")" and "~", splits on " & " and compares   *)
(* whole pieces with variable names, so the token view is exact.           *)
(***************************************************************************)
EXTENDS Integers, Sequences, FiniteSets, TLC

\* pc: "new" before __init__ has run, "ready" once a Pipeline exists,
\* "failed" when __init__ raised.  _columns, _screen, _prescreen and _domain
\* are the Pipeline's slots.  last records the latest call: its arguments,
\* what it raised or returned, and the slots as they were before it.
\* composed is the filter expression the caller has composed so far with ~, & and |
\* (None when the caller passes ready-made screens).  given_screen is the
\* filter the Pipeline was last given as its screen, by __init__ or by a
\* set_screen that did not raise (None when it was given none).
\* _bundles is the bundle registry of zipline/data/bundles/core.py and
\* zipline_root the directory tree under the data path: for each bundle
\* name that has a directory, its entries and what each holds.  clock is a
\* MinuteSimulationClock with the position of its iterator, and all_events
\* the events the iterator has yielded so far.
VARIABLES pc, _columns, _screen, _prescreen, _domain, last, composed,
          given_screen, _bundles, zipline_root, clock, all_events

vars == <<pc, _columns, _screen, _prescreen, _domain, last, composed,
          given_screen, _bundles, zipline_root, clock, all_events>>

\* Python's None.
None == [none |-> TRUE]

(***************************************************************************)
(* Terms                                                                   *)
(***************************************************************************)

\* A filter term.  cls is the Python class; sids the params["sids"] (or the
\* single asset's sid); input the class of inputs[0]; dataset and field the
\* qualname and name of the bound column at the bottom of the inputs chain;
\* op and opargs the ArrayPredicate params; expr and inputs the
\* NumericalExpression's _expr and inputs.  A Filter is a ComputableTerm
\* with two-dimensional output, defined on every domain.
FilterTerm(cls, sids, input, dataset, field, op, opargs, expr, inputs) ==
    [cls |-> cls, sids |-> sids, input |-> input, dataset |-> dataset,
     field |-> field, op |-> op, opargs |-> opargs, expr |-> expr,
     inputs |-> inputs, ndim |-> 2, computable |-> TRUE, domain |-> "GENERIC"]

SingleAsset(sid) ==
    FilterTerm("SingleAsset", <<sid>>, "", "", "", "", {}, <<>>, <<>>)

StaticAssets(sids) ==
    FilterTerm("StaticAssets", sids, "", "", "", "", {}, <<>>, <<>>)

StaticSids(real_sids) ==
    FilterTerm("StaticSids", real_sids, "", "", "", "", {}, <<>>, <<>>)

\* column.latest.<op>(args) on a categorical column: Classifier.eq, __ne__,
\* isin, startswith, endswith, has_substring and matches all build an
\* ArrayPredicate over the Latest classifier.
ArrayPredicate(dataset, field, op, opargs) ==
    FilterTerm("ArrayPredicate", <<>>, "LatestClassifier", dataset, field,
               op, opargs, <<>>, <<>>)

\* column.latest of a boolean column.
LatestFilter(dataset, field) ==
    FilterTerm("LatestFilter", <<>>, "BoundColumn", dataset, field,
               "", {}, <<>>, <<>>)

\* column.latest.isnull() / notnull() of a categorical column.
NullFilter(dataset, field) ==
    FilterTerm("NullFilter", <<>>, "LatestClassifier", dataset, field,
               "", {}, <<>>, <<>>)

NotNullFilter(dataset, field) ==
    FilterTerm("NotNullFilter", <<>>, "LatestClassifier", dataset, field,
               "", {}, <<>>, <<>>)

\* column.latest of a float column (a Factor, usable as a NumExpr input).
LatestFactor(dataset, field) ==
    FilterTerm("LatestFactor", <<>>, "BoundColumn", dataset, field,
               "", {}, <<>>, <<>>)

\* Any filter the prescreen code knows nothing about.
CustomFilter(field) ==
    FilterTerm("CustomFilter", <<>>, "", "", field, "", {}, <<>>, <<>>)

NumExprFilter(expr, inputs) ==
    FilterTerm("NumExprFilter", <<>>, "", "", "", "", {}, expr, inputs)

(***************************************************************************)
(* Expression strings                                                      *)
(***************************************************************************)

VarNames == <<"x_0", "x_1", "x_2", "x_3", "x_4", "x_5", "x_6", "x_7">>

\* "x_%d" % i
Var(i) == VarNames[i + 1]

IsVar(tok) == \E i \in 1..Len(VarNames) : VarNames[i] = tok

VarIndex(tok) == CHOOSE i \in 0..(Len(VarNames) - 1) : VarNames[i + 1] = tok

\* set(term.bindings): NumericalExpression.bindings maps "x_i" to inputs[i].
BindingNames(term) == {<<Var(i - 1)>> : i \in 1..Len(term.inputs)}

\* term.bindings[name]
Lookup(term, name) == term.inputs[VarIndex(name[1]) + 1]

IndexOf(seq, e) == CHOOSE i \in 1..Len(seq) : seq[i] = e

Contains(seq, e) == \E i \in 1..Len(seq) : seq[i] = e

\* _ensure_element: the tuple with e in it, appended when absent.
EnsureElement(seq, e) == IF Contains(seq, e) THEN seq ELSE Append(seq, e)

RECURSIVE Union2(_, _)
Union2(a, b) == IF b = <<>> THEN a ELSE Union2(EnsureElement(a, Head(b)), Tail(b))

\* NumericalExpression._rebind_variables: rename each x_i of expr to the
\* position its input has in new_inputs.
Rebind(expr, inputs, new_inputs) ==
    [k \in 1..Len(expr) |->
        IF IsVar(expr[k])
        THEN Var(IndexOf(new_inputs, inputs[VarIndex(expr[k]) + 1]) - 1)
        ELSE expr[k]]

\* Filter.__invert__ (unary_operator): "~x_0" over a plain filter,
\* "~(expr)" over a NumExprFilter.
Invert(f) ==
    IF f.cls = "NumExprFilter"
    THEN NumExprFilter(<<"~", "(">> \o f.expr \o <<")">>, f.inputs)
    ELSE NumExprFilter(<<"~", "x_0">>, <<f>>)

\* Filter.__and__ / __or__ (binary_operator) with op " & " or " | ".
\* Two plain filters give "x_0 op x_1" ("x_0 op x_0" for the same term); as
\* soon as one side is a NumExprFilter the result is "(left) op (right)" with
\* the inputs merged, the NumExprFilter on the left (these ops commute to
\* themselves).  The merged inputs come from a Python set, whose order is
\* arbitrary; the variable numbering it induces is never observed by the
\* prescreen code, so one order is taken.
BinOp(op, f, g) ==
    IF f.cls = "NumExprFilter" /\ g.cls = "NumExprFilter"
    THEN LET ni == Union2(f.inputs, g.inputs)
         IN NumExprFilter(<<"(">> \o Rebind(f.expr, f.inputs, ni) \o <<")", op, "(">>
                            \o Rebind(g.expr, g.inputs, ni) \o <<")">>, ni)
    ELSE IF f.cls = "NumExprFilter"
    THEN LET ni == EnsureElement(f.inputs, g)
         IN NumExprFilter(<<"(">> \o f.expr \o <<")", op, "(", Var(IndexOf(ni, g) - 1), ")">>, ni)
    ELSE IF g.cls = "NumExprFilter"
    THEN LET ni == EnsureElement(g.inputs, f)
         IN NumExprFilter(<<"(">> \o g.expr \o <<")", op, "(", Var(IndexOf(ni, f) - 1), ")">>, ni)
    ELSE IF f = g
    THEN NumExprFilter(<<"x_0", op, "x_0">>, <<f>>)
    ELSE NumExprFilter(<<"x_0", op, "x_1">>, <<f, g>>)

\* factor.isnull() on a float column: self != self.
FactorIsNull(factor) == NumExprFilter(<<"x_0", " != ", "x_0">>, <<factor>>)

(***************************************************************************)
(* Prescreen conversion (pipeline.py)                                      *)
(***************************************************************************)

SecuritiesMaster == "SecuritiesMaster"

\* The value list [True] of the boolean and null-check field definitions.
TrueValue == "True"

\* A prescreen field definition: the dict {"field", "op", "negate",
\* "values"}.  values is a list, kept as the set of its members (the list
\* built from an isin frozenset has no defined order); scalar records that
\* the code stored the bare string opargs[0] instead of a list.
FieldDef(field, op, negate, values, scalar) ==
    [field |-> field, op |-> op, negate |-> negate, values |-> values,
     scalar |-> scalar]

PredicateOps ==
    {"eq", "isin", "ne", "has_substring", "startswith", "endswith", "matches"}

_term_to_prescreen_fielddef(term) ==
    IF /\ term.cls = "ArrayPredicate"
       /\ term.input = "LatestClassifier"
       /\ term.dataset = SecuritiesMaster
       /\ term.op \in PredicateOps
    THEN CASE term.op = "eq" -> FieldDef(term.field, "eq", FALSE, term.opargs, FALSE)
           [] term.op = "isin" -> FieldDef(term.field, "eq", FALSE, term.opargs, FALSE)
           [] term.op = "ne" -> FieldDef(term.field, "eq", TRUE, term.opargs, FALSE)
           [] term.op = "has_substring" -> FieldDef(term.field, "contains", FALSE, term.opargs, TRUE)
           [] term.op = "startswith" -> FieldDef(term.field, "startswith", FALSE, term.opargs, TRUE)
           [] term.op = "endswith" -> FieldDef(term.field, "endswith", FALSE, term.opargs, TRUE)
           [] term.op = "matches" -> FieldDef(term.field, "match", FALSE, term.opargs, TRUE)
    ELSE IF term.cls = "LatestFilter" /\ term.dataset = SecuritiesMaster
    THEN FieldDef(term.field, "eq", FALSE, {TrueValue}, FALSE)
    ELSE IF /\ term.cls \in {"NullFilter", "NotNullFilter"}
            /\ term.input \in {"LatestClassifier", "LatestFactor"}
            /\ term.dataset = SecuritiesMaster
    THEN FieldDef(term.field, "isnull", term.cls = "NotNullFilter", {TrueValue}, FALSE)
    ELSE IF /\ term.cls = "NumExprFilter"
            /\ term.expr = <<"x_0", " != ", "x_0">>
            /\ Lookup(term, <<"x_0">>).cls = "LatestFactor"
            /\ Lookup(term, <<"x_0">>).dataset = SecuritiesMaster
    THEN FieldDef(Lookup(term, <<"x_0">>).field, "isnull", FALSE, {TrueValue}, FALSE)
    ELSE None

\* The prescreen dict: keys is the set of keys present, the other fields
\* their values (empty for an absent key).
PrescreenDict(keys, sids, real_sids, fields) ==
    [keys |-> keys, sids |-> sids, real_sids |-> real_sids, fields |-> fields]

EmptyDict == PrescreenDict({}, <<>>, <<>>, <<>>)

\* Python truthiness of a prescreen: None and the empty dict are falsy.
Truthy(p) == p # None /\ p.keys # {}

AddSids(p, sids) == [p EXCEPT !.keys = @ \cup {"sids"}, !.sids = @ \o sids]

AddRealSids(p, sids) ==
    [p EXCEPT !.keys = @ \cup {"real_sids"}, !.real_sids = @ \o sids]

AddField(p, fielddef) ==
    [p EXCEPT !.keys = @ \cup {"fields"}, !.fields = Append(@, fielddef)]

Flip(fielddef) == [fielddef EXCEPT !.negate = ~@]

_term_to_prescreen_dict(term, prescreen_in, negate) ==
    LET p == IF Truthy(prescreen_in) THEN prescreen_in ELSE EmptyDict
        inner == IF term.cls = "NumExprFilter" /\ term.expr = <<"~", "x_0">>
                 THEN _term_to_prescreen_fielddef(Lookup(term, <<"x_0">>))
                 ELSE None
        fielddef == _term_to_prescreen_fielddef(term)
    IN  IF term.cls = "SingleAsset" THEN AddSids(p, term.sids)
        ELSE IF term.cls = "StaticAssets" THEN AddSids(p, term.sids)
        ELSE IF term.cls \in {"StaticSids", "StaticUniverse"}
        THEN AddRealSids(p, term.sids)
        ELSE IF inner # None
        THEN AddField(p, IF negate THEN Flip(Flip(inner)) ELSE Flip(inner))
        ELSE IF fielddef # None
        THEN AddField(p, IF negate THEN Flip(fielddef) ELSE fielddef)
        ELSE None

\* str.replace(tok, "") for each token of toks.
Strip(expr, toks) == SelectSeq(expr, LAMBDA t : t \notin toks)

\* Split taking " | " for a separator as well.
RECURSIVE SplitAnyOperator(_, _)
SplitAnyOperator(expr, sep) ==
    IF ~(Contains(expr, sep) \/ Contains(expr, " | ")) THEN <<expr>>
    ELSE LET i == CHOOSE k \in 1..Len(expr) :
                     /\ expr[k] \in {sep, " | "}
                     /\ \A j \in 1..(k - 1) : expr[j] \notin {sep, " | "}
         IN <<SubSeq(expr, 1, i - 1)>>
                \o SplitAnyOperator(SubSeq(expr, i + 1, Len(expr)), sep)

\* expr.split(" & ")
RECURSIVE Split(_, _)
Split(expr, sep) ==
    IF ~Contains(expr, sep) THEN <<expr>>
    ELSE LET i == CHOOSE k \in 1..Len(expr) :
                     expr[k] = sep /\ \A j \in 1..(k - 1) : expr[j] # sep
         IN <<SubSeq(expr, 1, i - 1)>> \o Split(SubSeq(expr, i + 1, Len(expr)), sep)

\* The for loop of _maybe_convert_to_prescreen over the split terms: the
\* prescreen after the last term, or None as soon as one term does not
\* convert (the break).
RECURSIVE ConvertTerms(_, _, _)
ConvertTerms(terms, filter, p) ==
    IF terms = <<>> THEN p
    ELSE LET term == Head(terms)
             q == _term_to_prescreen_dict(Lookup(filter, Strip(term, {"~"})),
                                          p, Contains(term, "~"))
         IN IF ~Truthy(q) THEN None ELSE ConvertTerms(Tail(terms), filter, q)

\* _maybe_convert_to_prescreen without the two self._screen = None.
ConvertKeepingScreen(filter) ==
    LET single == _term_to_prescreen_dict(filter, None, FALSE)
        terms == Split(Strip(filter.expr, {"(", ")"}), " & ")
        conj == ConvertTerms(terms, filter, EmptyDict)
    IN  IF single # None
        THEN [screen |-> filter, prescreen |-> single]
        ELSE IF /\ filter.cls = "NumExprFilter"
                /\ {Strip(terms[i], {"~"}) : i \in 1..Len(terms)} = BindingNames(filter)
                /\ conj # None
        THEN [screen |-> filter, prescreen |-> conj]
        ELSE [screen |-> filter, prescreen |-> None]

\* _maybe_convert_to_prescreen as a function of the filter: the pair of
\* self._screen and self._prescreen it leaves behind, given that the caller
\* has just set self._screen = filter and self._prescreen = None.
_maybe_convert_to_prescreen(filter) ==
    LET single == _term_to_prescreen_dict(filter, None, FALSE)
        terms == Split(Strip(filter.expr, {"(", ")"}), " & ")
        conj == ConvertTerms(terms, filter, EmptyDict)
    IN  IF single # None
        THEN [screen |-> None, prescreen |-> single]
        ELSE IF /\ filter.cls = "NumExprFilter"
                /\ {Strip(terms[i], {"~"}) : i \in 1..Len(terms)} = BindingNames(filter)
                /\ conj # None
        THEN [screen |-> None, prescreen |-> conj]
        ELSE [screen |-> filter, prescreen |-> None]

(***************************************************************************)
(* Screens as the caller writes them, and what they mean                   *)
(***************************************************************************)

\* A screen expression: a leaf filter, ~e, e1 & e2 or e1 | e2.
Leaf(f) == [node |-> "leaf", leaf |-> f, l |-> None, r |-> None]

Not(e) == [node |-> "not", leaf |-> None, l |-> e, r |-> None]

And(e1, e2) == [node |-> "and", leaf |-> None, l |-> e1, r |-> e2]

Or(e1, e2) == [node |-> "or", leaf |-> None, l |-> e1, r |-> e2]

\* The Filter object Python builds when it evaluates the expression.
RECURSIVE Build(_)
Build(e) ==
    CASE e.node = "leaf" -> e.leaf
      [] e.node = "not" -> Invert(Build(e.l))
      [] e.node = "and" -> BinOp(" & ", Build(e.l), Build(e.r))
      [] e.node = "or" -> BinOp(" | ", Build(e.l), Build(e.r))

\* The missing value of a securities master field.
Missing == "NaN"

Asset(sid, real_sid, sectype, etf, assetid, price, liquid) ==
    [sid |-> sid, real_sid |-> real_sid, SecType |-> sectype, Etf |-> etf,
     AssetId |-> assetid, Price |-> price, Liquid |-> liquid]

\* The asset universe the screens are evaluated on.  SecType is never
\* missing, so that eq/ne and the prescreen's negated eq agree on it.
Assets ==
    { Asset(1, 101, "STK", "True", "id1", "1.0", "True"),
      Asset(2, 102, "STK", "False", Missing, Missing, "False"),
      Asset(3, 103, "FUT", "False", "id3", Missing, "True"),
      Asset(4, 104, "FUT", "True", Missing, "4.0", "False") }

\* Whether a leaf filter computes True for an asset.
LeafHolds(f, a) ==
    CASE f.cls = "SingleAsset" -> a.sid = f.sids[1]
      [] f.cls = "StaticAssets" -> Contains(f.sids, a.sid)
      [] f.cls = "StaticSids" -> Contains(f.sids, a.real_sid)
      [] f.cls = "ArrayPredicate" /\ f.op \in {"eq", "isin"} ->
            a[f.field] # Missing /\ a[f.field] \in f.opargs
      [] f.cls = "ArrayPredicate" /\ f.op = "ne" ->
            a[f.field] # Missing /\ a[f.field] \notin f.opargs
      [] f.cls = "LatestFilter" -> a[f.field] = TrueValue
      [] f.cls = "NullFilter" -> a[f.field] = Missing
      [] f.cls = "NotNullFilter" -> a[f.field] # Missing
      [] f.cls = "NumExprFilter" -> a[f.inputs[1].field] = Missing
      [] f.cls = "CustomFilter" -> a[f.field] = TrueValue

\* Whether the screen expression is true for an asset.
RECURSIVE Holds(_, _)
Holds(e, a) ==
    CASE e.node = "leaf" -> LeafHolds(e.leaf, a)
      [] e.node = "not" -> ~Holds(e.l, a)
      [] e.node = "and" -> Holds(e.l, a) /\ Holds(e.r, a)
      [] e.node = "or" -> Holds(e.l, a) \/ Holds(e.r, a)

\* Whether one field predicate of a prescreen admits an asset.
FieldAdmits(fd, a) ==
    LET hit == CASE fd.op = "eq" -> a[fd.field] \in fd.values
                 [] fd.op = "isnull" -> a[fd.field] = Missing
    IN  IF fd.negate THEN ~hit ELSE hit

\* Whether a prescreen admits an asset: the sids to include, the real sids
\* to include and every field predicate, all conjoined.
Admits(p, a) ==
    /\ "sids" \in p.keys => Contains(p.sids, a.sid)
    /\ "real_sids" \in p.keys => Contains(p.real_sids, a.real_sid)
    /\ \A i \in 1..Len(p.fields) : FieldAdmits(p.fields[i], a)

(***************************************************************************)
(* Inputs                                                                  *)
(***************************************************************************)

\* The most ~, & and | operators in a screen given to the conversion.
MaxOps == 2

SMColumnEq == ArrayPredicate(SecuritiesMaster, "SecType", "eq", {"STK"})

SMNotNull == NotNullFilter(SecuritiesMaster, "AssetId")

SMNumericIsNull == FactorIsNull(LatestFactor(SecuritiesMaster, "Price"))

\* The leaf filters screens are composed from, one for each way through the
\* prescreen code: a single asset, a static set of assets (sids), a static
\* set of real sids, a field predicate with negate false and one with
\* negate true, the numeric null check (a NumExprFilter), and a filter the
\* code does not recognize.
LeafFilters ==
    { SingleAsset(1),
      StaticAssets(<<1, 2>>),
      StaticSids(<<102, 103>>),
      SMColumnEq,
      SMNotNull,
      SMNumericIsNull,
      CustomFilter("Liquid") }

\* The number of ~, & and | operators of a screen expression.
RECURSIVE Ops(_)
Ops(e) ==
    CASE e.node = "leaf" -> 0
      [] e.node = "not" -> 1 + Ops(e.l)
      [] OTHER -> 1 + Ops(e.l) + Ops(e.r)

\* The expressions an expression under composition is combined with: a
\* leaf, a negated leaf, or two leaves joined by & or |.
Operands ==
    {Leaf(f) : f \in LeafFilters}
    \cup {Not(Leaf(f)) : f \in LeafFilters}
    \cup {And(Leaf(f), Leaf(g)) : f \in LeafFilters, g \in LeafFilters}
    \cup {Or(Leaf(f), Leaf(g)) : f \in LeafFilters, g \in LeafFilters}

\* The screens the Pipeline's operations are exercised with: a field leaf,
\* a sid leaf, an unrecognized leaf, a conjunction that converts and a
\* disjunction.
SampleScreens ==
    { Leaf(SMColumnEq),
      Leaf(SingleAsset(1)),
      Leaf(CustomFilter("Liquid")),
      And(Leaf(SMColumnEq), Leaf(StaticAssets(<<1, 2>>))),
      Or(Leaf(SMColumnEq), Leaf(SingleAsset(1))) }

GENERIC == "GENERIC"

Domains == {GENERIC, "US_EQUITIES", "CA_EQUITIES"}

\* A term offered as a column: its ndim, whether it is a ComputableTerm,
\* and the domain it is defined on.
ColumnTerm(id, ndim, computable, dom) ==
    [id |-> id, ndim |-> ndim, computable |-> computable, domain |-> dom]

\* The terms offered as columns; a Filter may be a column as well as a
\* screen.
ColumnTerms ==
    { ColumnTerm("close_latest", 2, TRUE, GENERIC),
      ColumnTerm("us_factor", 2, TRUE, "US_EQUITIES"),
      ColumnTerm("ca_factor", 2, TRUE, "CA_EQUITIES"),
      ColumnTerm("slice", 1, TRUE, GENERIC),
      ColumnTerm("bound_column", 2, FALSE, GENERIC),
      ColumnTerm("sma", 2, TRUE, GENERIC),
      SMColumnEq }

\* The terms behind the columns: "sma" is a three-row moving average of
\* "returns", "returns" a two-row window over "close_latest", and
\* "close_latest" the one-row Latest of a column.
Returns == ColumnTerm("returns", 2, TRUE, GENERIC)

CloseLatest == ColumnTerm("close_latest", 2, TRUE, GENERIC)

Sma == ColumnTerm("sma", 2, TRUE, GENERIC)

\* Term.window_length.
window_length(term) ==
    IF "id" \notin DOMAIN term THEN 0
    ELSE CASE term.id = "sma" -> 3
           [] term.id = "returns" -> 2
           [] term.id = "close_latest" -> 1
           [] OTHER -> 0

\* Term.inputs, as a set.
inputs(term) ==
    IF "id" \notin DOMAIN term
    THEN {term.inputs[i] : i \in 1..Len(term.inputs)}
    ELSE CASE term.id = "sma" -> {Returns}
           [] term.id = "returns" -> {CloseLatest}
           [] OTHER -> {}

\* The name the screen has among the terms of a graph; no column has it.
SCREEN_NAME == "screen_name"

AssetExists == FilterTerm("AssetExists", <<>>, "", "", "", "", {}, <<>>, <<>>)

\* The default screens given to to_execution_plan and to_simple_graph.
DefaultScreens == {AssetExists, CustomFilter("Tradable")}

Names == {"alpha", "beta"}

\* The columns dicts given to the constructor, as their items in iteration
\* order.
ColumnItems ==
    {<<>>}
    \cup { <<[name |-> n, term |-> t]>> : n \in Names, t \in ColumnTerms }
    \cup { items \in { <<[name |-> n1, term |-> t1], [name |-> n2, term |-> t2]>> :
                          n1 \in Names, n2 \in Names,
                          t1 \in ColumnTerms, t2 \in ColumnTerms } :
             items[1].name # items[2].name }

(***************************************************************************)
(* Pipeline operations                                                     *)
(***************************************************************************)

NoError == ""

\* validate_column without its ndim test.
ValidateNothing(term) == NoError

\* Pipeline.validate_column: the error it raises, if any.
validate_column(term) ==
    IF term.ndim = 1 THEN "UnsupportedPipelineOutput" ELSE NoError

\* The check __init__ makes of one column: validate_column, then the
\* ComputableTerm test.
InitColumnError(term) ==
    IF validate_column(term) # NoError THEN validate_column(term)
    ELSE IF ~term.computable THEN "TypeError"
    ELSE NoError

\* The error raised by __init__'s loop over columns.items(): that of the
\* first column failing its check.
RECURSIVE InitColumnsError(_)
InitColumnsError(items) ==
    IF items = <<>> THEN NoError
    ELSE IF InitColumnError(Head(items).term) # NoError
    THEN InitColumnError(Head(items).term)
    ELSE InitColumnsError(Tail(items))

\* The dict with the given items.
DictOf(items) ==
    [n \in {items[i].name : i \in 1..Len(items)} |->
        (CHOOSE it \in {items[i] : i \in 1..Len(items)} : it.name = n).term]

EmptyColumns == DictOf(<<>>)

\* dict.pop(name) without the result / dict[name] = term.
DictPop(cols, name) == [n \in (DOMAIN cols) \ {name} |-> cols[n]]

DictSet(cols, name, term) ==
    [n \in (DOMAIN cols) \cup {name} |-> IF n = name THEN term ELSE cols[n]]

\* remove as dict.pop(name, None): an absent name is passed over.
RemoveIfPresent(cols, name) ==
    IF name \in DOMAIN cols
    THEN [columns |-> DictPop(cols, name), error |-> NoError, returned |-> cols[name]]
    ELSE [columns |-> cols, error |-> NoError, returned |-> None]

\* Pipeline.remove: the columns it leaves, what it raises and returns.
remove_result(cols, name) ==
    IF name \in DOMAIN cols
    THEN [columns |-> DictPop(cols, name), error |-> NoError, returned |-> cols[name]]
    ELSE [columns |-> cols, error |-> "KeyError", returned |-> None]

\* add without the duplicate-name test: an existing column is replaced
\* whatever overwrite says.
AddAlwaysOverwriting(cols, term, name, overwrite) ==
    IF validate_column(term) # NoError
    THEN [columns |-> cols, error |-> validate_column(term)]
    ELSE IF ~term.computable
    THEN [columns |-> DictPop(cols, name), error |-> "TypeError"]
    ELSE [columns |-> DictSet(cols, name, term), error |-> NoError]

\* Pipeline.add: the columns it leaves and what it raises.
add_result(cols, term, name, overwrite) ==
    LET removed == IF name \in DOMAIN cols /\ overwrite
                   THEN remove_result(cols, name).columns
                   ELSE cols
    IN  IF validate_column(term) # NoError
        THEN [columns |-> cols, error |-> validate_column(term)]
        ELSE IF name \in DOMAIN cols /\ ~overwrite
        THEN [columns |-> cols, error |-> "KeyError"]
        ELSE IF ~term.computable
        THEN [columns |-> removed, error |-> "TypeError"]
        ELSE [columns |-> DictSet(removed, name, term), error |-> NoError]

\* set_screen testing self._screen alone, not self._prescreen.
SetScreenIgnoringPrescreen(scr, pre, filter, overwrite) ==
    IF scr # None /\ ~overwrite
    THEN [screen |-> scr, prescreen |-> pre, error |-> "ValueError"]
    ELSE [screen |-> _maybe_convert_to_prescreen(filter).screen,
          prescreen |-> _maybe_convert_to_prescreen(filter).prescreen,
          error |-> NoError]

\* Pipeline.set_screen: the screen and prescreen it leaves, what it raises.
set_screen_result(scr, pre, filter, overwrite) ==
    IF (scr # None \/ pre # None) /\ ~overwrite
    THEN [screen |-> scr, prescreen |-> pre, error |-> "ValueError"]
    ELSE [screen |-> _maybe_convert_to_prescreen(filter).screen,
          prescreen |-> _maybe_convert_to_prescreen(filter).prescreen,
          error |-> NoError]

\* The domain a term is defined on; the filters used as screens are
\* defined on every domain.
TermDomain(term) == IF "domain" \in DOMAIN term THEN term.domain ELSE GENERIC

\* Pipeline._output_terms: the columns' terms, plus the screen if present.
_output_terms(cols, scr) ==
    {cols[n] : n \in DOMAIN cols} \cup (IF scr # None THEN {scr} ELSE {})

\* infer_domain: GENERIC when no term names a domain, the domain when all
\* that name one agree, AmbiguousDomain otherwise.
infer_domain(domains) ==
    LET specific == domains \ {GENERIC}
    IN  IF specific = {} THEN [error |-> NoError, domain |-> GENERIC]
        ELSE IF Cardinality(specific) = 1
        THEN [error |-> NoError, domain |-> CHOOSE d \in specific : TRUE]
        ELSE [error |-> "AmbiguousDomain", domain |-> GENERIC]

\* Pipeline.domain returning the explicit domain whenever nothing is
\* inferred, and never the default.
ResolveWithoutDefault(inferred, explicit, default) ==
    IF inferred = GENERIC
    THEN [error |-> NoError, returned |-> explicit]
    ELSE IF explicit = GENERIC
    THEN [error |-> NoError, returned |-> inferred]
    ELSE IF inferred # explicit
    THEN [error |-> "ValueError", returned |-> ""]
    ELSE [error |-> NoError, returned |-> inferred]

\* The branches of Pipeline.domain once the domain has been inferred.
resolve_domain(inferred, explicit, default) ==
    IF inferred = GENERIC /\ explicit = GENERIC
    THEN [error |-> NoError, returned |-> default]
    ELSE IF inferred = GENERIC /\ explicit # GENERIC
    THEN [error |-> NoError, returned |-> explicit]
    ELSE IF inferred # GENERIC /\ explicit = GENERIC
    THEN [error |-> NoError, returned |-> inferred]
    ELSE IF inferred # explicit
    THEN [error |-> "ValueError", returned |-> ""]
    ELSE [error |-> NoError, returned |-> inferred]

\* Pipeline.domain: what it raises and returns.
domain_result(cols, scr, explicit, default) ==
    LET inferred == infer_domain({TermDomain(t) : t \in _output_terms(cols, scr)})
    IN  IF inferred.error # NoError
        THEN [error |-> inferred.error, returned |-> "", inferred |-> ""]
        ELSE [error |-> resolve_domain(inferred.domain, explicit, default).error,
              returned |-> resolve_domain(inferred.domain, explicit, default).returned,
              inferred |-> inferred.domain]

\* _prepare_graph_terms putting default_screen in whatever the screen is.
PrepareWithDefaultScreen(cols, scr, default_screen) ==
    DictSet(cols, SCREEN_NAME, default_screen)

\* _prepare_graph_terms starting from an empty dict instead of a copy of
\* the columns.
PrepareWithoutColumns(cols, scr, default_screen) ==
    DictSet(EmptyColumns, SCREEN_NAME, IF scr = None THEN default_screen ELSE scr)

\* Pipeline._prepare_graph_terms: a copy of the columns with the screen,
\* or default_screen when there is none, under SCREEN_NAME.
_prepare_graph_terms(cols, scr, default_screen) ==
    DictSet(cols, SCREEN_NAME, IF scr = None THEN default_screen ELSE scr)

\* The nodes of a graph: the terms handed to it and their transitive
\* inputs.
RECURSIVE Nodes(_)
Nodes(terms) ==
    LET more == terms \cup UNION {inputs(t) : t \in terms}
    IN  IF more = terms THEN terms ELSE Nodes(more)

\* The extra rows a term asks of each of its inputs.
DependencyRows(term) ==
    IF window_length(term) > 0 THEN window_length(term) - 1 ELSE 0

Max(S) == CHOOSE x \in S : \A y \in S : y <= x

\* The extra rows resolved for a node: none asked of an output for itself,
\* and for each node depending on it that node's extra rows plus what the
\* node's window asks.
RECURSIVE ExtraRows(_, _)
ExtraRows(node, nodes) ==
    Max({0} \cup {ExtraRows(b, nodes) + DependencyRows(b) :
                     b \in {n \in nodes : node \in inputs(n)}})

\* TermGraph(terms) / ExecutionPlan(domain, terms, start_date, end_date).
TermGraph(terms) == [terms |-> terms]

ExecutionPlan(dom, terms) ==
    LET nodes == Nodes({terms[n] : n \in DOMAIN terms})
    IN  [domain |-> dom, terms |-> terms,
         extra_rows |-> [n \in nodes |-> ExtraRows(n, nodes)]]

\* to_execution_plan comparing the explicit domain with the supplied one
\* even when the explicit domain is GENERIC.
PlanRequiringSameDomain(explicit, cols, scr, dom, default_screen) ==
    IF explicit # dom
    THEN [error |-> "AssertionError", returned |-> None]
    ELSE [error |-> NoError,
          returned |-> ExecutionPlan(dom, _prepare_graph_terms(cols, scr, default_screen))]

\* Pipeline.to_execution_plan: what it raises and returns.
to_execution_plan_result(explicit, cols, scr, dom, default_screen) ==
    IF explicit # GENERIC /\ explicit # dom
    THEN [error |-> "AssertionError", returned |-> None]
    ELSE [error |-> NoError,
          returned |-> ExecutionPlan(dom, _prepare_graph_terms(cols, scr, default_screen))]

\* Pipeline.to_simple_graph: what it returns.
to_simple_graph_result(cols, scr, default_screen) ==
    TermGraph(_prepare_graph_terms(cols, scr, default_screen))

(***************************************************************************)
(* Classifiers (zipline/pipeline/classifiers/classifier.py)                *)
(***************************************************************************)

\* Python values given to the classifier methods, tagged with their type.
\* A float is kept by its numeric value (only whole floats are used).
PyInt(n) == [type |-> "int", num |-> n, str |-> ""]

PyFloat(n) == [type |-> "float", num |-> n, str |-> ""]

PyStr(s) == [type |-> "str", num |-> 0, str |-> s]

NoneValue == [type |-> "NoneType", num |-> 0, str |-> ""]

\* A function, and a list (unhashable).
PyFunction == [type |-> "function", num |-> 0, str |-> "relabeler"]

PyList == [type |-> "list", num |-> 0, str |-> ""]

\* isinstance(v, Number), isinstance(v, int), isinstance(v, (bytes, unicode)).
IsNumber(v) == v.type \in {"int", "float"}

IsInt(v) == v.type = "int"

IsString(v) == v.type = "str"

\* Python's a == b: numbers compare by value whatever their type, other
\* values when they have the same type and content.
PyEq(a, b) ==
    IF IsNumber(a) /\ IsNumber(b) THEN a.num = b.num ELSE a = b

\* The digits of int(other) in an expression string.
IntText(n) == IF n < 0 THEN "-" \o ToString(0 - n) ELSE ToString(n)

\* The text of a value as the filters' parameters hold it.
Text(v) ==
    IF v.type = "str" THEN v.str
    ELSE IF IsNumber(v) THEN IntText(v.num)
    ELSE v.type

int64_dtype == "int64"

categorical_dtype == "categorical"

\* The Latest classifier of a dataset column: its dtype, its missing_value
\* and the column it reads.
Classifier(dtype, missing_value, dataset, field) ==
    [cls |-> "LatestClassifier", dtype |-> dtype, missing_value |-> missing_value,
     dataset |-> dataset, field |-> field, window_length |-> 1]

\* What a method returns or raises.
Raise(error) == [error |-> error, returned |-> None]

Return(term) == [error |-> NoError, returned |-> term]

\* InvalidClassifierComparison is a TypeError.
IsTypeError(error) == error \in {"TypeError", "InvalidClassifierComparison"}

\* eq without the comparison against missing_value.
EqWithoutMissingCheck(self, other) ==
    IF IsNumber(other) # (self.dtype = int64_dtype)
    THEN Raise("InvalidClassifierComparison")
    ELSE IF IsNumber(other)
    THEN Return(NumExprFilter(<<"x_0", " == ", IntText(other.num)>>, <<self>>))
    ELSE Return(ArrayPredicate(self.dataset, self.field, "eq", {Text(other)}))

\* Classifier.eq.
eq_result(self, other) ==
    IF PyEq(other, self.missing_value)
    THEN Raise("ValueError")
    ELSE IF IsNumber(other) # (self.dtype = int64_dtype)
    THEN Raise("InvalidClassifierComparison")
    ELSE IF IsNumber(other)
    THEN Return(NumExprFilter(<<"x_0", " == ", IntText(other.num)>>, <<self>>))
    ELSE Return(ArrayPredicate(self.dataset, self.field, "eq", {Text(other)}))

\* __ne__ building the predicate eq builds.
NeBuildingEq(self, other) ==
    IF IsNumber(other) # (self.dtype = int64_dtype)
    THEN Raise("InvalidClassifierComparison")
    ELSE IF IsNumber(other)
    THEN Return(NumExprFilter(<<"x_0", " == ", IntText(other.num)>>, <<self>>))
    ELSE Return(ArrayPredicate(self.dataset, self.field, "eq", {Text(other)}))

\* Classifier.__ne__.
ne_result(self, other) ==
    IF IsNumber(other) # (self.dtype = int64_dtype)
    THEN Raise("InvalidClassifierComparison")
    ELSE IF IsNumber(other)
    THEN Return(NumExprFilter(<<"(", "(", "x_0", " != ", IntText(other.num), ")",
                                " & ", "(", "x_0", " != ",
                                IntText(self.missing_value.num), ")", ")">>,
                              <<self>>))
    ELSE Return(ArrayPredicate(self.dataset, self.field, "ne", {Text(other)}))

\* The ordering comparisons: __gt__, __ge__, __le__ and __lt__ are
\* bad_compare with the operator's name.
CompareOps == {">", ">=", "<=", "<"}

\* bad_compare returning NotImplemented, so that Python raises nothing
\* itself and tries the other operand.
CompareNotImplemented(opname, other) == Return(PyStr("NotImplemented"))

bad_compare(opname, other) == Raise("TypeError")

\* The restriction lifted: every dtype passes.
AnyClassifier(self) == NoError

\* string_classifiers_only: the error raised before the method's body runs
\* when the classifier's dtype is not categorical_dtype.
string_classifiers_only(self) ==
    IF self.dtype # categorical_dtype THEN "TypeError" ELSE NoError

\* Classifier.startswith, endswith, has_substring and matches.
startswith_result(self, prefix) ==
    IF string_classifiers_only(self) # NoError
    THEN Raise(string_classifiers_only(self))
    ELSE Return(ArrayPredicate(self.dataset, self.field, "startswith", {Text(prefix)}))

endswith_result(self, suffix) ==
    IF string_classifiers_only(self) # NoError
    THEN Raise(string_classifiers_only(self))
    ELSE Return(ArrayPredicate(self.dataset, self.field, "endswith", {Text(suffix)}))

has_substring_result(self, substring) ==
    IF string_classifiers_only(self) # NoError
    THEN Raise(string_classifiers_only(self))
    ELSE Return(ArrayPredicate(self.dataset, self.field, "has_substring",
                               {Text(substring)}))

matches_result(self, pattern) ==
    IF string_classifiers_only(self) # NoError
    THEN Raise(string_classifiers_only(self))
    ELSE Return(ArrayPredicate(self.dataset, self.field, "matches", {Text(pattern)}))

\* The Relabel classifier of a term.
RelabelTerm(term, relabeler) ==
    [cls |-> "Relabel", dtype |-> term.dtype, missing_value |-> term.missing_value,
     dataset |-> term.dataset, field |-> term.field, window_length |-> 0,
     input |-> term, relabeler |-> relabeler]

\* Relabel.__new__ accepting every dtype, so that the failure is left to
\* _compute.
RelabelAnyDtype(term, relabeler) ==
    IF relabeler.type # "function"
    THEN Raise("ValidationError")
    ELSE Return(RelabelTerm(term, relabeler))

\* Relabel.__new__: validate_call checks that relabeler is callable, then
\* the dtype test.
Relabel_result(term, relabeler) ==
    IF relabeler.type # "function"
    THEN Raise("ValidationError")
    ELSE IF term.dtype # categorical_dtype
    THEN Raise("TypeError")
    ELSE Return(RelabelTerm(term, relabeler))

\* Classifier.relabel.
relabel_result(self, relabeler) ==
    IF string_classifiers_only(self) # NoError
    THEN Raise(string_classifiers_only(self))
    ELSE Relabel_result(self, relabeler)

\* An argument given as choices: a list of values, or a value that cannot
\* be iterated over.
Choices(items) == [type |-> "list", items |-> items]

NotIterable == [type |-> "int", items |-> <<>>]

\* Whether frozenset(choices) succeeds: choices can be iterated over and
\* every element can be hashed.
IsHashable(v) == v.type # "list"

FrozenSetError(choices) ==
    \/ choices.type # "list"
    \/ \E i \in 1..Len(choices.items) : ~IsHashable(choices.items[i])

\* frozenset(choices): of elements that are equal the first one is kept.
RECURSIVE FrozenSet(_)
FrozenSet(items) ==
    IF items = <<>> THEN {}
    ELSE LET front == FrozenSet(SubSeq(items, 1, Len(items) - 1))
             x == items[Len(items)]
         IN  IF \E y \in front : PyEq(x, y) THEN front ELSE front \cup {x}

\* value in choices.
In(v, fs) == \E y \in fs : PyEq(v, y)

\* isin testing the elements' types before looking for missing_value.
IsinCheckingTypesFirst(self, choices) ==
    IF FrozenSetError(choices) THEN Raise("TypeError")
    ELSE LET fs == FrozenSet(choices.items)
         IN  IF self.dtype = int64_dtype /\ ~(\A v \in fs : IsInt(v))
             THEN Raise("TypeError")
             ELSE IF self.dtype = categorical_dtype /\ ~(\A v \in fs : IsString(v))
             THEN Raise("TypeError")
             ELSE IF In(self.missing_value, fs)
             THEN Raise("ValueError")
             ELSE IF self.dtype = int64_dtype
             THEN Return(ArrayPredicate(self.dataset, self.field,
                                        "vectorized_is_element",
                                        {Text(v) : v \in fs}))
             ELSE Return(ArrayPredicate(self.dataset, self.field, "isin",
                                        {Text(v) : v \in fs}))

\* Classifier.isin.
isin_result(self, choices) ==
    IF FrozenSetError(choices) THEN Raise("TypeError")
    ELSE LET fs == FrozenSet(choices.items)
         IN  IF In(self.missing_value, fs)
             THEN Raise("ValueError")
             ELSE IF self.dtype = int64_dtype
             THEN IF \A v \in fs : IsInt(v)
                  THEN Return(ArrayPredicate(self.dataset, self.field,
                                             "vectorized_is_element",
                                             {Text(v) : v \in fs}))
                  ELSE Raise("TypeError")
             ELSE IF self.dtype = categorical_dtype
             THEN IF \A v \in fs : IsString(v)
                  THEN Return(ArrayPredicate(self.dataset, self.field, "isin",
                                             {Text(v) : v \in fs}))
                  ELSE Raise("TypeError")
             ELSE Raise("AssertionError")

\* The Shift classifier of a term.
ShiftTerm(term, window) ==
    [cls |-> "Shift", dtype |-> term.dtype, missing_value |-> term.missing_value,
     dataset |-> term.dataset, field |-> term.field, window_length |-> window,
     input |-> term]

\* Shift._validate accepting a window length of 1.
ValidateAnyPositiveWindow(window) ==
    IF window <= 0
    THEN [error |-> "WindowLengthNotPositive", cited |-> window]
    ELSE [error |-> NoError, cited |-> 0]

\* Shift._validate: the checks of the classes it extends (a custom term's
\* window length is positive), then its own; cited is the window length
\* the message quotes.
Shift_validate(window) ==
    IF window <= 0
    THEN [error |-> "WindowLengthNotPositive", cited |-> window]
    ELSE IF window < 2
    THEN [error |-> "ValueError", cited |-> window]
    ELSE [error |-> NoError, cited |-> 0]

\* Classifier.shift: the Shift term with window_length = periods + 1, and
\* what the validation of that term raises.
shift_result(self, periods) ==
    [error |-> Shift_validate(periods + 1).error,
     returned |-> ShiftTerm(self, periods + 1),
     cited |-> Shift_validate(periods + 1).cited]

\* The rows of its input a windowed term is given for the date at
\* position t: the window_length rows that end with that date's.
Window(rows, t, window) == SubSeq(rows, t - window + 1, t)

\* compute writing the last row of the window, the date's own.
ComputeLastRow(values) == values[Len(values)]

\* Shift.compute: out[:] = values[0].
compute(values) == values[1]

\* What a Shift term outputs for the date at position t of its input's
\* rows.
ShiftOutput(term, rows, t) == compute(Window(rows, t, term.window_length))

\* The classifiers the methods are called on: integer-coded ones with
\* missing_value -1 and 0, categorical ones with missing_value None and "".
Classifiers ==
    { Classifier(int64_dtype, PyInt(0 - 1), SecuritiesMaster, "Sector"),
      Classifier(int64_dtype, PyInt(0), "Fundamentals", "Sector"),
      Classifier(categorical_dtype, NoneValue, SecuritiesMaster, "SecType"),
      Classifier(categorical_dtype, PyStr(""), SecuritiesMaster, "SecType") }

\* The values given to the methods.
Values ==
    { PyInt(0 - 1), PyInt(0), PyInt(5), PyFloat(0 - 1), PyFloat(5),
      PyStr("STK"), PyStr("FUT"), PyStr(""), NoneValue, PyFunction, PyList }

\* The most elements in a choices argument.
MaxChoices == 2

\* The sequences over S of length at most n.
RECURSIVE SeqsUpTo(_, _)
SeqsUpTo(S, n) ==
    IF n = 0 THEN {<<>>}
    ELSE SeqsUpTo(S, n - 1)
         \cup {Append(q, x) : q \in {r \in SeqsUpTo(S, n - 1) : Len(r) = n - 1},
                               x \in S}

ChoicesArguments ==
    {NotIterable} \cup {Choices(items) : items \in SeqsUpTo(Values, MaxChoices)}

\* The most periods given to shift (the least is -1).
MaxPeriods == 3

\* The rows of a classifier's output, oldest first, for one asset.
Rows == <<"r1", "r2", "r3", "r4", "r5", "r6">>

(***************************************************************************)
(* The state machine                                                       *)
(***************************************************************************)

Slots == [columns |-> _columns, screen |-> _screen, prescreen |-> _prescreen]

NoCall ==
    [op |-> "", items |-> <<>>, name |-> "", term |-> None, overwrite |-> FALSE,
     ast |-> None, default |-> "", error |-> NoError, returned |-> None,
     returned_domain |-> "", inferred |-> "",
     supplied |-> "", default_screen |-> None, graph |-> None,
     self |-> None, arg |-> None, cited |-> 0,
     pre |-> [columns |-> EmptyColumns, screen |-> None, prescreen |-> None]]

Init ==
    /\ pc = "new"
    /\ _columns = EmptyColumns
    /\ _screen = None
    /\ _prescreen = None
    /\ _domain = GENERIC
    /\ last = NoCall
    /\ composed = None
    /\ given_screen = None
    /\ _bundles = <<>>
    /\ zipline_root = <<>>
    /\ clock = None
    /\ all_events = <<>>

\* Pipeline(columns, screen, domain); ast = None stands for screen=None.
__init__(items, ast, dom) ==
    /\ pc = "new"
    /\ LET err == InitColumnsError(items)
           conv == _maybe_convert_to_prescreen(Build(ast))
       IN  /\ last' = [NoCall EXCEPT !.op = "__init__", !.items = items,
                                     !.ast = ast, !.default = dom, !.error = err]
           /\ IF err # NoError
              THEN /\ pc' = "failed"
                   /\ UNCHANGED <<_columns, _screen, _prescreen, _domain, composed,
                                  given_screen,
                                  _bundles, zipline_root, clock, all_events>>
              ELSE /\ pc' = "ready"
                   /\ _columns' = DictOf(items)
                   /\ _screen' = IF ast = None THEN None ELSE conv.screen
                   /\ _prescreen' = IF ast = None THEN None ELSE conv.prescreen
                   /\ _domain' = dom
                   /\ given_screen' = IF ast = None THEN None ELSE Build(ast)
                   /\ UNCHANGED <<composed, _bundles, zipline_root, clock,
                                  all_events>>

add(term, name, overwrite) ==
    /\ pc = "ready"
    /\ LET res == add_result(_columns, term, name, overwrite)
       IN  /\ _columns' = res.columns
           /\ last' = [NoCall EXCEPT !.op = "add", !.term = term, !.name = name,
                                     !.overwrite = overwrite, !.error = res.error,
                                     !.pre = Slots]
    /\ UNCHANGED <<pc, _screen, _prescreen, _domain, composed, given_screen,
                                  _bundles, zipline_root, clock, all_events>>

remove(name) ==
    /\ pc = "ready"
    /\ LET res == remove_result(_columns, name)
       IN  /\ _columns' = res.columns
           /\ last' = [NoCall EXCEPT !.op = "remove", !.name = name,
                                     !.error = res.error, !.returned = res.returned,
                                     !.pre = Slots]
    /\ UNCHANGED <<pc, _screen, _prescreen, _domain, composed, given_screen,
                                  _bundles, zipline_root, clock, all_events>>

set_screen(ast, overwrite) ==
    /\ pc = "ready"
    /\ LET res == set_screen_result(_screen, _prescreen, Build(ast), overwrite)
       IN  /\ _screen' = res.screen
           /\ _prescreen' = res.prescreen
           /\ last' = [NoCall EXCEPT !.op = "set_screen", !.ast = ast,
                                     !.overwrite = overwrite, !.error = res.error,
                                     !.pre = Slots]
           /\ given_screen' = IF res.error = NoError THEN Build(ast)
                                                     ELSE given_screen
    /\ UNCHANGED <<pc, _columns, _domain, composed, _bundles, zipline_root,
                   clock, all_events>>

domain(default) ==
    /\ pc = "ready"
    /\ LET res == domain_result(_columns, _screen, _domain, default)
       IN  last' = [NoCall EXCEPT !.op = "domain", !.default = default,
                                  !.error = res.error,
                                  !.returned_domain = res.returned,
                                  !.inferred = res.inferred, !.pre = Slots]
    /\ UNCHANGED <<pc, _columns, _screen, _prescreen, _domain, composed,
                   given_screen,
                                  _bundles, zipline_root, clock, all_events>>

to_execution_plan(dom, default_screen) ==
    /\ pc = "ready"
    /\ LET res == to_execution_plan_result(_domain, _columns, _screen, dom,
                                           default_screen)
       IN  last' = [NoCall EXCEPT !.op = "to_execution_plan", !.supplied = dom,
                                  !.default_screen = default_screen,
                                  !.error = res.error, !.graph = res.returned,
                                  !.pre = Slots]
    /\ UNCHANGED <<pc, _columns, _screen, _prescreen, _domain, composed,
                   given_screen,
                                  _bundles, zipline_root, clock, all_events>>

to_simple_graph(default_screen) ==
    /\ pc = "ready"
    /\ last' = [NoCall EXCEPT !.op = "to_simple_graph",
                              !.default_screen = default_screen,
                              !.graph = to_simple_graph_result(_columns, _screen,
                                                               default_screen),
                              !.pre = Slots]
    /\ UNCHANGED <<pc, _columns, _screen, _prescreen, _domain, composed,
                   given_screen,
                                  _bundles, zipline_root, clock, all_events>>

Construct ==
    /\ pc = "new"
    /\ \E items \in ColumnItems, ast \in SampleScreens \cup {None}, dom \in Domains :
          __init__(items, ast, dom)

Next ==
    \/ Construct
    \/ \E term \in ColumnTerms, name \in Names, overwrite \in BOOLEAN :
          add(term, name, overwrite)
    \/ \E name \in Names : remove(name)
    \/ \E ast \in SampleScreens, overwrite \in BOOLEAN : set_screen(ast, overwrite)
    \/ \E default \in Domains : domain(default)
    \/ \E dom \in Domains, default_screen \in DefaultScreens :
          to_execution_plan(dom, default_screen)
    \/ \E default_screen \in DefaultScreens : to_simple_graph(default_screen)

Spec == Init /\ [][Next]_vars

\* The prescreen conversion alone: the caller composes a filter expression,
\* then constructs a Pipeline with it as the screen, or constructs a
\* Pipeline without a screen and gives it to set_screen.
Compose(e) ==
    /\ pc = "new"
    /\ Ops(e) <= MaxOps
    /\ composed' = e
    /\ UNCHANGED <<pc, _columns, _screen, _prescreen, _domain, last,
                   given_screen,
                                  _bundles, zipline_root, clock, all_events>>

NewFilter == composed = None /\ \E f \in LeafFilters : Compose(Leaf(f))

__invert__ == composed # None /\ Compose(Not(composed))

__and__ ==
    /\ composed # None
    /\ Ops(composed) < MaxOps
    /\ \E x \in Operands : Compose(And(composed, x)) \/ Compose(And(x, composed))

__or__ ==
    /\ composed # None
    /\ Ops(composed) < MaxOps
    /\ \E x \in Operands : Compose(Or(composed, x)) \/ Compose(Or(x, composed))

ConstructWithScreen == composed # None /\ __init__(<<>>, composed, GENERIC)

ConstructBare == composed # None /\ __init__(<<>>, None, GENERIC)

FirstSetScreen ==
    /\ composed # None
    /\ last.op = "__init__"
    /\ last.ast = None
    /\ set_screen(composed, FALSE)

NextConv ==
    \/ NewFilter
    \/ __invert__
    \/ __and__
    \/ __or__
    \/ ConstructWithScreen
    \/ ConstructBare
    \/ FirstSetScreen

SpecConv == Init /\ [][NextConv]_vars

\* The classifier methods alone: a classifier and an argument are drawn,
\* then one method is called on them.
Arguments ==
    Values \cup ChoicesArguments \cup {PyInt(n) : n \in (0 - 1)..MaxPeriods}

InitClassifier ==
    /\ pc = "classifier"
    /\ _columns = EmptyColumns
    /\ _screen = None
    /\ _prescreen = None
    /\ _domain = GENERIC
    /\ last \in {[NoCall EXCEPT !.self = self, !.arg = arg] :
                    self \in Classifiers, arg \in Arguments}
    /\ composed = None
    /\ given_screen = None
    /\ _bundles = <<>>
    /\ zipline_root = <<>>
    /\ clock = None
    /\ all_events = <<>>

Call(op, res) ==
    /\ pc = "classifier"
    /\ last.op = ""
    /\ last' = [last EXCEPT !.op = op, !.error = res.error,
                            !.returned = res.returned]
    /\ UNCHANGED <<pc, _columns, _screen, _prescreen, _domain, composed,
                   given_screen,
                                  _bundles, zipline_root, clock, all_events>>

eq == last.arg \in Values /\ Call("eq", eq_result(last.self, last.arg))

__ne__ == last.arg \in Values /\ Call("__ne__", ne_result(last.self, last.arg))

\* self < other and the like: Python calls the comparison method with the
\* other operand.
Compare ==
    /\ last.arg \in Values
    /\ \E opname \in CompareOps : Call(opname, bad_compare(opname, last.arg))

startswith ==
    last.arg \in Values /\ Call("startswith", startswith_result(last.self, last.arg))

endswith ==
    last.arg \in Values /\ Call("endswith", endswith_result(last.self, last.arg))

has_substring ==
    /\ last.arg \in Values
    /\ Call("has_substring", has_substring_result(last.self, last.arg))

matches ==
    last.arg \in Values /\ Call("matches", matches_result(last.self, last.arg))

relabel ==
    last.arg \in Values /\ Call("relabel", relabel_result(last.self, last.arg))

\* Relabel(term=..., relabeler=...) constructed directly.
Relabel ==
    last.arg \in Values /\ Call("Relabel", Relabel_result(last.self, last.arg))

isin ==
    last.arg \in ChoicesArguments /\ Call("isin", isin_result(last.self, last.arg))

\* shift(periods) with an int.
shift ==
    /\ pc = "classifier"
    /\ last.op = ""
    /\ last.arg \in {PyInt(n) : n \in (0 - 1)..MaxPeriods}
    /\ last' = [last EXCEPT !.op = "shift",
                            !.error = shift_result(last.self, last.arg.num).error,
                            !.returned = shift_result(last.self, last.arg.num).returned,
                            !.cited = shift_result(last.self, last.arg.num).cited]
    /\ UNCHANGED <<pc, _columns, _screen, _prescreen, _domain, composed,
                   given_screen,
                                  _bundles, zipline_root, clock, all_events>>

NextClassifier ==
    \/ eq
    \/ __ne__
    \/ Compare
    \/ startswith
    \/ endswith
    \/ has_substring
    \/ matches
    \/ relabel
    \/ Relabel
    \/ isin
    \/ shift

SpecClassifier == InitClassifier /\ [][NextClassifier]_vars

(***************************************************************************)
(* Properties                                                              *)
(***************************************************************************)

\* The latest call gave the screen last.ast to the conversion: a
\* constructor with a screen, or a set_screen that did not raise.
Converted ==
    /\ pc = "ready"
    /\ last.op \in {"__init__", "set_screen"}
    /\ last.error = NoError
    /\ last.ast # None

\* The conjuncts of a screen: the operands of its outermost run of &.
RECURSIVE Conjuncts(_)
Conjuncts(e) ==
    IF e.node = "and" THEN Conjuncts(e.l) \o Conjuncts(e.r) ELSE <<e>>

IsSidLeaf(e) ==
    e.node = "leaf" /\ e.leaf.cls \in {"SingleAsset", "StaticAssets", "StaticSids"}

IsFieldLeaf(e) ==
    e.node = "leaf" /\ _term_to_prescreen_fielddef(e.leaf) # None

\* The recognized leaf shapes: a single asset or static set, a field leaf
\* (comparison, boolean column, null check), or a field leaf negated once.
IsRecognizedLeaf(e) ==
    \/ IsSidLeaf(e)
    \/ IsFieldLeaf(e)
    \/ e.node = "not" /\ IsFieldLeaf(e.l)

RECURSIVE HasOr(_)
HasOr(e) ==
    CASE e.node = "leaf" -> FALSE
      [] e.node = "not" -> HasOr(e.l)
      [] e.node = "and" -> HasOr(e.l) \/ HasOr(e.r)
      [] e.node = "or" -> TRUE

\* The number of times each element occurs in a sequence.
Count(seq) ==
    [x \in {seq[i] : i \in 1..Len(seq)} |->
        Cardinality({i \in 1..Len(seq) : seq[i] = x})]

\* The prescreen entries one recognized leaf stands for.
LeafSids(e) ==
    IF e.node = "leaf" /\ e.leaf.cls \in {"SingleAsset", "StaticAssets"}
    THEN e.leaf.sids ELSE <<>>

LeafRealSids(e) ==
    IF e.node = "leaf" /\ e.leaf.cls = "StaticSids" THEN e.leaf.sids ELSE <<>>

LeafFields(e) ==
    IF IsFieldLeaf(e) THEN <<_term_to_prescreen_fielddef(e.leaf)>>
    ELSE IF e.node = "not" /\ IsFieldLeaf(e.l)
    THEN <<Flip(_term_to_prescreen_fielddef(e.l.leaf))>>
    ELSE <<>>

RECURSIVE Flatten(_)
Flatten(seqs) == IF seqs = <<>> THEN <<>> ELSE Head(seqs) \o Flatten(Tail(seqs))

\* The entries the conjuncts of a screen stand for, taken together.
ConjunctSids(e) ==
    Flatten([i \in 1..Len(Conjuncts(e)) |-> LeafSids(Conjuncts(e)[i])])

ConjunctRealSids(e) ==
    Flatten([i \in 1..Len(Conjuncts(e)) |-> LeafRealSids(Conjuncts(e)[i])])

ConjunctFields(e) ==
    Flatten([i \in 1..Len(Conjuncts(e)) |-> LeafFields(Conjuncts(e)[i])])

\* C1: whenever a screen has been converted, the installed prescreen admits
\* an asset exactly when the screen expression is true for it.
C1_PrescreenEquivalent ==
    (Converted /\ _prescreen # None) =>
        \A a \in Assets : Admits(_prescreen, a) <=> Holds(last.ast, a)

\* C2: a Pipeline never has both a screen and a prescreen.
C2_ScreenXorPrescreen == ~(_screen # None /\ _prescreen # None)

C2_Witness ==
    /\ pc = "ready"
    /\ last.op = "set_screen"
    /\ last.error = NoError
    /\ last.pre.screen # None
    /\ _prescreen # None
    /\ _screen = None

\* C3: a conjunction with a conjunct that is not a recognized leaf is never
\* converted: the prescreen is None and the screen is the filter given.
C3_UnrecognizedConjunctKeepsScreen ==
    (/\ Converted
     /\ last.ast.node = "and"
     /\ \E i \in 1..Len(Conjuncts(last.ast)) : ~IsRecognizedLeaf(Conjuncts(last.ast)[i]))
    => (_prescreen = None /\ _screen = Build(last.ast))

\* C4: a conjunction of two or more recognized leaves is converted, in any
\* order and parenthesization: the screen is cleared and the prescreen
\* holds exactly the entries of its leaves.
C4_ConjunctionOfLeavesConverts ==
    (/\ Converted
     /\ last.ast.node = "and"
     /\ \A i \in 1..Len(Conjuncts(last.ast)) : IsRecognizedLeaf(Conjuncts(last.ast)[i]))
    => /\ _screen = None
       /\ _prescreen # None
       /\ Count(_prescreen.sids) = Count(ConjunctSids(last.ast))
       /\ Count(_prescreen.real_sids) = Count(ConjunctRealSids(last.ast))
       /\ Count(_prescreen.fields) = Count(ConjunctFields(last.ast))

\* C5: a screen whose expression contains | is never converted: the
\* prescreen is None and the screen is the filter given.
C5_OrNeverConverted ==
    (Converted /\ HasOr(last.ast)) =>
        (_prescreen = None /\ _screen = Build(last.ast))

C5_Witness ==
    /\ Converted
    /\ last.op = "set_screen"
    /\ last.ast.node = "and"
    /\ last.ast.l.node = "or"
    /\ IsRecognizedLeaf(last.ast.l.l)
    /\ IsRecognizedLeaf(last.ast.l.r)
    /\ IsRecognizedLeaf(last.ast.r)
    /\ _screen = Build(last.ast)

\* C6: set_screen without overwrite on a pipeline whose screen or prescreen
\* is set raises and leaves both unchanged; otherwise it succeeds and what
\* it leaves is what the conversion makes of the new filter alone, nothing
\* of the previous screen or prescreen remaining.
C6_SetScreenOverwrite ==
    (pc = "ready" /\ last.op = "set_screen") =>
        IF (last.pre.screen # None \/ last.pre.prescreen # None) /\ ~last.overwrite
        THEN /\ last.error = "ValueError"
             /\ _screen = last.pre.screen
             /\ _prescreen = last.pre.prescreen
        ELSE /\ last.error = NoError
             /\ \/ _screen = Build(last.ast) /\ _prescreen = None
                \/ /\ _screen = None
                   /\ _prescreen # None
                   /\ _prescreen = _maybe_convert_to_prescreen(Build(last.ast)).prescreen

C6_Witness ==
    /\ pc = "ready"
    /\ last.op = "set_screen"
    /\ last.overwrite
    /\ last.error = NoError
    /\ last.pre.prescreen # None
    /\ _prescreen = None
    /\ _screen = Build(last.ast)

IsValidColumn(term) == term.ndim = 2 /\ term.computable

\* The columns are those before the call, except that name maps to term.
ColumnsWith(name, term) ==
    /\ DOMAIN _columns = DOMAIN last.pre.columns \cup {name}
    /\ _columns[name] = term
    /\ \A n \in DOMAIN _columns \ {name} : _columns[n] = last.pre.columns[n]

\* C7 as stated: add without overwrite under a name already in columns
\* fails with the duplicate-name error and leaves columns unchanged; add
\* with overwrite and a valid term maps name to the term and leaves the
\* other entries unchanged.
C7_AddAsStated ==
    (pc = "ready" /\ last.op = "add") =>
        /\ (~last.overwrite /\ last.name \in DOMAIN last.pre.columns) =>
              (last.error = "KeyError" /\ _columns = last.pre.columns)
        /\ (last.overwrite /\ IsValidColumn(last.term)) =>
              (last.error = NoError /\ ColumnsWith(last.name, last.term))

\* C7: add without overwrite under a name already in columns fails and
\* leaves columns unchanged, with the duplicate-name error when the term's
\* output is two-dimensional and with the unsupported-output error when
\* its ndim is 1; add with overwrite and a valid term maps name to the
\* term and leaves the other entries unchanged.
C7_AddDuplicateName ==
    (pc = "ready" /\ last.op = "add") =>
        /\ (~last.overwrite /\ last.name \in DOMAIN last.pre.columns) =>
              /\ last.error = IF last.term.ndim = 1
                              THEN "UnsupportedPipelineOutput" ELSE "KeyError"
              /\ _columns = last.pre.columns
        /\ (last.overwrite /\ IsValidColumn(last.term)) =>
              (last.error = NoError /\ ColumnsWith(last.name, last.term))

C7_Witness ==
    /\ pc = "ready"
    /\ last.op = "add"
    /\ ~last.overwrite
    /\ last.name \in DOMAIN last.pre.columns
    /\ last.term.ndim = 2
    /\ last.term # last.pre.columns[last.name]
    /\ last.error = "KeyError"
    /\ Cardinality(DOMAIN _columns) = 2

\* C8: every value in columns is a ComputableTerm with two-dimensional
\* output; the constructor and add raise on any other term and do not
\* insert it.
C8_ColumnsAreValid ==
    /\ \A n \in DOMAIN _columns : IsValidColumn(_columns[n])
    /\ (last.op = "__init__"
          /\ \E i \in 1..Len(last.items) : ~IsValidColumn(last.items[i].term))
       => (pc = "failed" /\ last.error # NoError)
    /\ (last.op = "add" /\ ~IsValidColumn(last.term)) => last.error # NoError

C8_Witness ==
    /\ pc = "ready"
    /\ last.op = "add"
    /\ last.term.ndim = 1
    /\ last.overwrite
    /\ last.name \in DOMAIN last.pre.columns
    /\ last.error = "UnsupportedPipelineOutput"
    /\ _columns = last.pre.columns

\* C9: remove of an absent name raises KeyError and changes nothing;
\* otherwise it returns the term stored under the name, deletes that entry
\* only, and leaves the other columns, the screen and the prescreen as
\* they were.
C9_Remove ==
    (pc = "ready" /\ last.op = "remove") =>
        IF last.name \notin DOMAIN last.pre.columns
        THEN last.error = "KeyError" /\ Slots = last.pre
        ELSE /\ last.error = NoError
             /\ last.returned = last.pre.columns[last.name]
             /\ DOMAIN _columns = DOMAIN last.pre.columns \ {last.name}
             /\ \A n \in DOMAIN _columns : _columns[n] = last.pre.columns[n]
             /\ _screen = last.pre.screen
             /\ _prescreen = last.pre.prescreen

C9_Witness ==
    /\ pc = "ready"
    /\ last.op = "remove"
    /\ last.error = NoError
    /\ DOMAIN last.pre.columns = Names
    /\ DOMAIN _columns = Names \ {last.name}
    /\ _prescreen # None

\* C10: with E the explicit and I the inferred domain, domain(default)
\* returns default when both are generic, the non-generic one when exactly
\* one is, I when both are the same non-generic domain, and raises the
\* conflict error when they are two different ones; what it returns is not
\* the generic domain unless default is.
C10_DomainResolution ==
    (pc = "ready" /\ last.op = "domain" /\ last.error # "AmbiguousDomain") =>
        /\ (last.inferred = GENERIC /\ _domain = GENERIC) =>
              (last.error = NoError /\ last.returned_domain = last.default)
        /\ (last.inferred = GENERIC /\ _domain # GENERIC) =>
              (last.error = NoError /\ last.returned_domain = _domain)
        /\ (last.inferred # GENERIC /\ _domain = GENERIC) =>
              (last.error = NoError /\ last.returned_domain = last.inferred)
        /\ (last.inferred # GENERIC /\ _domain # GENERIC /\ last.inferred = _domain) =>
              (last.error = NoError /\ last.returned_domain = _domain)
        /\ (last.inferred # GENERIC /\ _domain # GENERIC /\ last.inferred # _domain) =>
              last.error = "ValueError"
        /\ (last.error = NoError /\ last.returned_domain = GENERIC) =>
              last.default = GENERIC

C10_Witness ==
    /\ pc = "ready"
    /\ last.op = "domain"
    /\ last.inferred = "US_EQUITIES"
    /\ _domain = "CA_EQUITIES"
    /\ last.error = "ValueError"

\* The terms handed to a graph, whatever their names.
Terms(graph) == {graph.terms[n] : n \in DOMAIN graph.terms}

\* C11: to_execution_plan raises the consistency error (AssertionError) and
\* returns no plan exactly when the Pipeline's explicit domain is not
\* GENERIC and is not the supplied domain; otherwise, and so for every
\* supplied domain when the explicit domain is GENERIC, it returns a plan
\* for the supplied domain.  The Pipeline is left as it was.
C11_PlanDomainConsistency ==
    last.op = "to_execution_plan" =>
       /\ (last.error = "AssertionError")
             <=> (_domain # GENERIC /\ _domain # last.supplied)
       /\ last.error \in {NoError, "AssertionError"}
       /\ last.error # NoError => last.graph = None
       /\ last.error = NoError =>
             last.graph # None /\ last.graph.domain = last.supplied
       /\ Slots = last.pre

C11_Witness ==
    /\ last.op = "to_execution_plan"
    /\ last.error = "AssertionError"
    /\ _domain = "US_EQUITIES"
    /\ last.supplied = "CA_EQUITIES"

\* C12 as stated: the terms handed to the graph are the columns plus one
\* screen entry, the screen if one is set and default_screen otherwise; and
\* once the screen has been converted to a prescreen the screen entry is
\* default_screen and the filter that was given as the screen is not among
\* the graph's terms.
C12_GraphTermsAsStated ==
    (last.op \in {"to_execution_plan", "to_simple_graph"} /\ last.error = NoError) =>
       /\ DOMAIN last.graph.terms = DOMAIN _columns \cup {SCREEN_NAME}
       /\ \A n \in DOMAIN _columns : last.graph.terms[n] = _columns[n]
       /\ last.graph.terms[SCREEN_NAME]
             = IF _screen # None THEN _screen ELSE last.default_screen
       /\ _prescreen # None =>
             /\ last.graph.terms[SCREEN_NAME] = last.default_screen
             /\ given_screen \notin Terms(last.graph)

\* C12: the terms handed to the graph by to_execution_plan and
\* to_simple_graph are the columns plus one screen entry, the screen if one
\* is set and default_screen otherwise; once the screen has been converted
\* to a prescreen the screen entry is default_screen, and the filter that
\* was given as the screen is among the graph's terms only when it is also
\* a column or is default_screen itself.  The Pipeline's own columns are
\* left as they were.
C12_GraphTerms ==
    (last.op \in {"to_execution_plan", "to_simple_graph"} /\ last.error = NoError) =>
       /\ DOMAIN last.graph.terms = DOMAIN _columns \cup {SCREEN_NAME}
       /\ \A n \in DOMAIN _columns : last.graph.terms[n] = _columns[n]
       /\ last.graph.terms[SCREEN_NAME]
             = IF _screen # None THEN _screen ELSE last.default_screen
       /\ _prescreen # None =>
             /\ last.graph.terms[SCREEN_NAME] = last.default_screen
             /\ given_screen \in Terms(last.graph) =>
                   \/ \E n \in DOMAIN _columns : _columns[n] = given_screen
                   \/ given_screen = last.default_screen
       /\ Slots = last.pre

\* A graph compiled after the screen was converted, and one compiled with
\* the screen kept.
C12_Witness ==
    /\ last.op = "to_simple_graph"
    /\ _prescreen # None
    /\ given_screen = SMColumnEq
    /\ DOMAIN _columns = {"alpha"}
    /\ last.graph.terms[SCREEN_NAME] = AssetExists

C14_EqMissingValue ==
    (last.op = "eq" /\ PyEq(last.arg, last.self.missing_value)) =>
       /\ last.error = "ValueError"
       /\ last.returned = None

\* eq(-1.0) on an integer-coded classifier whose missing_value is -1.
C14_Witness ==
    /\ last.op = "eq"
    /\ last.self.dtype = int64_dtype
    /\ last.self.missing_value = PyInt(0 - 1)
    /\ last.arg = PyFloat(0 - 1)
    /\ last.error = "ValueError"

StringMethods == {"startswith", "endswith", "has_substring", "matches", "relabel"}

\* C15: on an integer-coded classifier startswith, endswith, has_substring,
\* matches and relabel raise TypeError whatever the argument and build no
\* term; on a categorical classifier each returns a term (relabel when
\* given a function).
C15_StringMethodsOnly ==
    last.op \in StringMethods =>
       /\ last.self.dtype = int64_dtype =>
             last.error = "TypeError" /\ last.returned = None
       /\ (/\ last.self.dtype = categorical_dtype
           /\ last.op = "relabel" => last.arg.type = "function") =>
             /\ last.error = NoError
             /\ last.returned # None
             /\ last.returned.cls
                   = IF last.op = "relabel" THEN "Relabel" ELSE "ArrayPredicate"

C15_Witness ==
    /\ last.op = "startswith"
    /\ last.self.dtype = int64_dtype
    /\ last.arg = PyStr("STK")
    /\ last.error = "TypeError"

\* C16 as stated: relabel(fn) on an integer-coded classifier, by
\* Classifier.relabel or by constructing Relabel, raises
\* NotImplementedError.
C16_RelabelNumericAsStated ==
    (/\ last.op \in {"relabel", "Relabel"}
     /\ last.self.dtype = int64_dtype
     /\ last.arg.type = "function") =>
       last.error = "NotImplementedError"

\* C16: relabel(fn) on an integer-coded classifier, by Classifier.relabel
\* or by constructing Relabel, raises TypeError and builds no term.
C16_RelabelNumeric ==
    (/\ last.op \in {"relabel", "Relabel"}
     /\ last.self.dtype = int64_dtype
     /\ last.arg.type = "function") =>
       /\ last.error = "TypeError"
       /\ last.returned = None

C16_Witness ==
    /\ last.op = "Relabel"
    /\ last.self.dtype = int64_dtype
    /\ last.arg = PyFunction
    /\ last.error = "TypeError"

\* What the claim says of a choices argument.
CanBeFrozen(choices) ==
    /\ choices.type = "list"
    /\ \A i \in 1..Len(choices.items) : choices.items[i].type # "list"

HasMissing(self, choices) ==
    \E v \in FrozenSet(choices.items) : PyEq(v, self.missing_value)

MatchesDtype(self, choices) ==
    IF self.dtype = int64_dtype
    THEN \A v \in FrozenSet(choices.items) : v.type = "int"
    ELSE \A v \in FrozenSet(choices.items) : v.type = "str"

C18_IsinIsDisjunctionOfEq ==
    (last.op = "isin" /\ last.error = NoError) =>
       LET self == last.self
           S == FrozenSet(last.arg.items)
           fielddef == _term_to_prescreen_fielddef(last.returned)
       IN  /\ \A v \in S : eq_result(self, v).error = NoError
           /\ \A v \in S : S = {v} =>
                 fielddef = _term_to_prescreen_fielddef(eq_result(self, v).returned)
           /\ self.dtype = int64_dtype => fielddef = None
           /\ (self.dtype = categorical_dtype /\ self.dataset = SecuritiesMaster) =>
                 /\ fielddef = FieldDef(self.field, "eq", FALSE,
                                        {Text(v) : v \in S}, FALSE)
                 /\ \A v \in S :
                       _term_to_prescreen_fielddef(ne_result(self, v).returned)
                         = FieldDef(self.field, "eq", TRUE, {Text(v)}, FALSE)
                 /\ \A a \in Assets :
                       /\ LeafHolds(last.returned, a)
                             <=> \E v \in S : LeafHolds(eq_result(self, v).returned, a)
                       /\ FieldAdmits(fielddef, a)
                             <=> \E v \in S :
                                   FieldAdmits(_term_to_prescreen_fielddef(
                                                  eq_result(self, v).returned), a)

C18_Witness ==
    /\ last.op = "isin"
    /\ last.error = NoError
    /\ last.self.dtype = categorical_dtype
    /\ last.arg = Choices(<<PyStr("STK"), PyStr("FUT")>>)
    /\ _term_to_prescreen_fielddef(last.returned).values = {"STK", "FUT"}

\* C19: shift(periods) builds a term with window_length = periods + 1
\* (2 for periods = 1); validation accepts the term exactly when its
\* window_length is at least 2, and for periods = 0 raises ValueError
\* quoting window length 1; an accepted term's output for a date is the
\* first row of its window, the input's row periods dates earlier.
C19_Shift ==
    last.op = "shift" =>
       /\ last.returned.window_length = last.arg.num + 1
       /\ last.arg.num = 1 => last.returned.window_length = 2
       /\ (last.error = NoError) <=> (last.returned.window_length >= 2)
       /\ last.arg.num = 0 => (last.error = "ValueError" /\ last.cited = 1)
       /\ last.error = NoError =>
             \A t \in last.returned.window_length..Len(Rows) :
                /\ ShiftOutput(last.returned, Rows, t)
                      = Window(Rows, t, last.returned.window_length)[1]
                /\ ShiftOutput(last.returned, Rows, t) = Rows[t - last.arg.num]

C19_Witness ==
    /\ last.op = "shift"
    /\ last.arg.num = 0
    /\ last.error = "ValueError"
    /\ last.cited = 1

\* C20: <, <=, > and >= on a classifier of either dtype, against any
\* operand, raise TypeError and return no Filter.
C20_OrderingAlwaysFails ==
    last.op \in CompareOps =>
       /\ last.error = "TypeError"
       /\ last.returned = None

C20_Witness ==
    /\ last.op = "<="
    /\ last.self.dtype = categorical_dtype
    /\ last.arg = PyStr("STK")
    /\ last.error = "TypeError"

\* C27: an add call that raises leaves columns exactly as it was before
\* the call, whether the name exists or not, with or without overwrite,
\* and whatever the term is.
C27_FailedAddKeepsColumns ==
    (pc = "ready" /\ last.op = "add" /\ last.error # NoError) =>
        _columns = last.pre.columns

\* C28: a screen that is, or has as a conjunct, the negation of a
\* SingleAsset, StaticAssets or StaticSids filter is never converted into a
\* prescreen that lists that filter's assets in sids or real_sids: the
\* conversion is abandoned, the prescreen is None and the screen is the
\* filter given.
C28_NegatedAssetsNotConverted ==
    Converted =>
        \A i \in 1..Len(Conjuncts(last.ast)) :
            LET c == Conjuncts(last.ast)[i]
            IN  (c.node = "not" /\ IsSidLeaf(c.l)) =>
                   /\ _prescreen = None
                   /\ _screen = Build(last.ast)

\* The field predicates a screen's leaves stand for, each with its own
\* polarity flipped once per ~ that encloses the leaf (flips counts the ~
\* operators passed on the way down).
RECURSIVE PolarFields(_, _)
PolarFields(e, flips) ==
    CASE e.node = "leaf" ->
            IF ~IsFieldLeaf(e) THEN <<>>
            ELSE IF flips % 2 = 1
            THEN <<Flip(_term_to_prescreen_fielddef(e.leaf))>>
            ELSE <<_term_to_prescreen_fielddef(e.leaf)>>
      [] e.node = "not" -> PolarFields(e.l, flips + 1)
      [] OTHER -> PolarFields(e.l, flips) \o PolarFields(e.r, flips)

\* C29: in every installed prescreen each field predicate carries its
\* leaf's own polarity flipped once for each ~ that encloses the leaf, so
\* ~(~x) is converted like x (or not at all) and ~(a & b) is never
\* converted like ~a & b.
C29_NegateFollowsEnclosingInversions ==
    (Converted /\ _prescreen # None) =>
        Count(_prescreen.fields) = Count(PolarFields(last.ast, 0))

(***************************************************************************)
(* Data bundles (zipline/data/bundles/core.py)                             *)
(***************************************************************************)

\* A pd.Timestamp, to the day (a session label, or the time of an
\* ingestion).
Timestamp(day) == [day |-> day]

\* The last day of the timestamps given to ingest and load.
MaxDay == 2

Days == 1..MaxDay

Timestamps == {Timestamp(d) : d \in Days}

\* ts.isoformat(), as tokens.
isoformat(ts) == <<"2016-01-", ToString(ts.day), "T00", ":", "00", ":", "00">>

\* str.replace(old, new) on a text of tokens.
replace(text, old, new) ==
    [i \in 1..Len(text) |-> IF text[i] = old THEN new ELSE text[i]]

to_bundle_ingest_dirname(ts) == replace(isoformat(ts), ":", ";")

\* pd.Timestamp(text): the timestamp an isoformat text stands for, None
\* for any other text.
ParseTimestamp(text) ==
    IF /\ Len(text) = 7
       /\ text[1] = "2016-01-"
       /\ text[4] = ":"
       /\ text[6] = ":"
       /\ \E d \in Days : ToString(d) = text[2]
    THEN Timestamp(CHOOSE d \in Days : ToString(d) = text[2])
    ELSE None

from_bundle_ingest_dirname(cs) == ParseTimestamp(replace(cs, ";", ":"))

\* The sessions the calendar supports are 1..MaxSession.
MaxSession == 3

get_calendar(calendar_name) ==
    [name |-> calendar_name,
     first_session |-> Timestamp(1),
     last_session |-> Timestamp(MaxSession)]

\* The namedtuple register stores; ingest names the function f.
RegisteredBundle(calendar_name, start_session, end_session, ingest) ==
    [calendar_name |-> calendar_name,
     start_session |-> start_session,
     end_session |-> end_session,
     minutes_per_day |-> 390,
     ingest |-> ingest,
     create_writers |-> TRUE]

UnknownBundle == "UnknownBundle"

\* What the function f of a bundle raises when it fails.
IngestFailure == "IOError"

\* register(name, f, ...): the registry it leaves, and whether it warned of
\* overwriting.
register_result(bundles, name, bundle) ==
    [bundles |-> DictSet(bundles, name, bundle),
     warned |-> name \in DOMAIN bundles,
     error |-> NoError]

\* unregister as dict.pop(name, None): an unknown name is passed over.
UnregisterIfPresent(bundles, name) ==
    [bundles |-> DictPop(bundles, name), error |-> NoError]

\* unregister(name).
unregister_result(bundles, name) ==
    IF name \in DOMAIN bundles
    THEN [bundles |-> DictPop(bundles, name), error |-> NoError]
    ELSE [bundles |-> bundles, error |-> UnknownBundle]

\* The start_session and end_session ingest passes to the function f.
ingest_sessions(bundle) ==
    LET calendar == get_calendar(bundle.calendar_name)
    IN  [start_session |->
             IF \/ bundle.start_session = None
                \/ bundle.start_session.day < calendar.first_session.day
             THEN calendar.first_session
             ELSE bundle.start_session,
         end_session |->
             IF \/ bundle.end_session = None
                \/ bundle.end_session.day > calendar.last_session.day
             THEN calendar.last_session
             ELSE bundle.end_session]

\* The directory of the dataframe cache of a bundle.
CacheDir == <<".cache">>

\* pth.hidden(entry): the entry's name starts with a dot.
hidden(entry) == entry = CacheDir

\* What an ingestion directory holds: nothing once created, the bundle's
\* data once the writers' working directory has been moved into place.
EmptyDir == "empty"

IngestedData == "data"

\* pth.ensure_directory(data_path([name, entry])): the directory and its
\* parents exist afterwards, and what exists is left as it is.
ensure_directory(root, name, entry) ==
    LET dir == IF name \in DOMAIN root THEN root[name] ELSE <<>>
    IN  DictSet(root, name,
                IF entry \in DOMAIN dir THEN dir ELSE DictSet(dir, entry, EmptyDir))

\* The tree once the working directory has been moved into place.
Written(root, name, entry) ==
    DictSet(root, name, DictSet(root[name], entry, IngestedData))

\* ingest(name, timestamp=timestamp) with timestamp already set (to utcnow
\* when the caller gave none): the tree it leaves, what it raises, and the
\* sessions it passed to f.  raised tells whether f raised on this run
\* instead of returning.
ingest_result(bundles, root, name, timestamp, raised) ==
    IF name \notin DOMAIN bundles
    THEN [root |-> root, error |-> UnknownBundle, start_session |-> None,
          end_session |-> None, timestr |-> <<>>]
    ELSE LET bundle == bundles[name]
             sessions == ingest_sessions(bundle)
             timestr == to_bundle_ingest_dirname(timestamp)
             made == ensure_directory(ensure_directory(root, name, timestr),
                                      name, CacheDir)
         IN  [root |-> IF raised THEN made
                       ELSE Written(made, name, timestr),
              error |-> IF raised THEN IngestFailure
                        ELSE NoError,
              start_session |-> sessions.start_session,
              end_session |-> sessions.end_session,
              timestr |-> timestr]

\* max(entries, key=from_bundle_ingest_dirname).
Latest(entries) ==
    CHOOSE c \in entries :
        \A d \in entries :
            from_bundle_ingest_dirname(d).day <= from_bundle_ingest_dirname(c).day

\* most_recent_data(bundle_name, timestamp): the path it returns, as
\* <<bundle name, entry>>, or what it raises.
most_recent_data(bundles, root, bundle_name, timestamp) ==
    IF bundle_name \notin DOMAIN bundles THEN Raise(UnknownBundle)
    ELSE IF bundle_name \notin DOMAIN root THEN Raise("ValueError")
    ELSE LET candidates == DOMAIN root[bundle_name]
             visible == {c \in candidates : ~hidden(c)}
         IN  IF visible = {} THEN Raise("ValueError")
             ELSE Return(<<bundle_name, Latest(visible)>>)

\* load(name, timestamp=timestamp) with timestamp already set: the
\* ingestion directory its readers are opened on and what the directory
\* holds, or what it raises.
load_result(bundles, root, name, timestamp) ==
    LET found == most_recent_data(bundles, root, name, timestamp)
    IN  IF found.error # NoError
        THEN [error |-> found.error, timestr |-> <<>>, data |-> None]
        ELSE [error |-> NoError, timestr |-> found.returned[2],
              data |-> root[name][found.returned[2]]]


\* The bundle names and registrations given to the registry.
BundleNames == {"quantrocket", "csvdir"}

Registrations ==
    { RegisteredBundle("NYSE", None, None, "f"),
      RegisteredBundle("XTKS", None, None, "g") }

\* The sessions a bundle is registered with: absent, or a day from the
\* one before the calendar's first session to the one after its last.
RegisteredSessions == {None} \cup {Timestamp(d) : d \in 0..(MaxSession + 1)}

\* The most ingestion directories the runs create in all.
MaxIngestions == 2

\* The ingestion directories in the tree.
Ingestions(root) ==
    {p \in (DOMAIN root) \X UNION {DOMAIN root[n] : n \in DOMAIN root} :
        p[2] \in DOMAIN root[p[1]] /\ ~hidden(p[2])}

NoBundleCall ==
    [op |-> "", name |-> "", timestamp |-> None, bundle |-> None,
     raised |-> FALSE, error |-> NoError, warned |-> FALSE, timestr |-> <<>>,
     data |-> None, start_session |-> None, end_session |-> None,
     pre |-> <<>>]

\* The registry, ingest and load: bundles are registered and unregistered,
\* ingested at the timestamps given and loaded.
InitBundles ==
    /\ pc = "bundles"
    /\ _columns = EmptyColumns
    /\ _screen = None
    /\ _prescreen = None
    /\ _domain = GENERIC
    /\ last = NoBundleCall
    /\ composed = None
    /\ given_screen = None
    /\ _bundles = <<>>
    /\ zipline_root = <<>>
    /\ clock = None
    /\ all_events = <<>>

register(name, bundle) ==
    /\ pc = "bundles"
    /\ LET res == register_result(_bundles, name, bundle)
       IN  /\ _bundles' = res.bundles
           /\ last' = [NoBundleCall EXCEPT !.op = "register", !.name = name,
                                           !.bundle = bundle,
                                           !.warned = res.warned,
                                           !.pre = _bundles]
    /\ UNCHANGED <<pc, _columns, _screen, _prescreen, _domain, composed,
                   given_screen, zipline_root, clock, all_events>>

unregister(name) ==
    /\ pc = "bundles"
    /\ LET res == unregister_result(_bundles, name)
       IN  /\ _bundles' = res.bundles
           /\ last' = [NoBundleCall EXCEPT !.op = "unregister", !.name = name,
                                           !.error = res.error,
                                           !.pre = _bundles]
    /\ UNCHANGED <<pc, _columns, _screen, _prescreen, _domain, composed,
                   given_screen, zipline_root, clock, all_events>>

\* ingest(name, timestamp=timestamp); timestamp is the one given, or the
\* time read by utcnow when none was given.
ingest(name, timestamp, raised) ==
    /\ pc = "bundles"
    /\ LET ts == timestamp
           res == ingest_result(_bundles, zipline_root, name, ts, raised)
       IN  /\ Cardinality(Ingestions(res.root)) <= MaxIngestions
           /\ zipline_root' = res.root
           /\ last' = [NoBundleCall EXCEPT !.op = "ingest", !.name = name,
                                           !.timestamp = ts,
                                           !.raised = raised,
                                           !.error = res.error,
                                           !.timestr = res.timestr,
                                           !.start_session = res.start_session,
                                           !.end_session = res.end_session,
                                           !.pre = _bundles]
    /\ UNCHANGED <<pc, _columns, _screen, _prescreen, _domain, composed,
                   given_screen, _bundles, clock, all_events>>

\* load(name, timestamp=timestamp); timestamp is the one given, or the
\* time read by utcnow when none was given.
load(name, timestamp) ==
    /\ pc = "bundles"
    /\ LET ts == timestamp
           res == load_result(_bundles, zipline_root, name, ts)
       IN  last' = [NoBundleCall EXCEPT !.op = "load", !.name = name,
                                       !.timestamp = ts,
                                       !.error = res.error,
                                       !.timestr = res.timestr,
                                       !.data = res.data,
                                       !.pre = _bundles]
    /\ UNCHANGED <<pc, _columns, _screen, _prescreen, _domain, composed,
                   given_screen, _bundles, zipline_root, clock, all_events>>

NextBundles ==
    \/ \E name \in BundleNames, bundle \in Registrations : register(name, bundle)
    \/ \E name \in BundleNames : unregister(name)
    \/ \E name \in BundleNames, timestamp \in Timestamps, raised \in BOOLEAN :
          ingest(name, timestamp, raised)
    \/ \E name \in BundleNames, timestamp \in Timestamps : load(name, timestamp)

SpecBundles == InitBundles /\ [][NextBundles]_vars

\* ingest alone: one bundle is registered with the sessions drawn, then
\* ingested once.
InitSessions ==
    /\ pc = "bundles"
    /\ _columns = EmptyColumns
    /\ _screen = None
    /\ _prescreen = None
    /\ _domain = GENERIC
    /\ last = NoBundleCall
    /\ composed = None
    /\ given_screen = None
    /\ _bundles \in {DictSet(<<>>, "csvdir", RegisteredBundle("NYSE", s, e, "f")) :
                         s \in RegisteredSessions, e \in RegisteredSessions}
    /\ zipline_root = <<>>
    /\ clock = None
    /\ all_events = <<>>

NextSessions ==
    /\ last.op = ""
    /\ \E timestamp \in Timestamps, raised \in BOOLEAN :
          ingest("csvdir", timestamp, raised)

SpecSessions == InitSessions /\ [][NextSessions]_vars

(***************************************************************************)
(* Properties of the bundles                                               *)
(***************************************************************************)

\* The ingestion directories of a bundle: one per timestamp it has been
\* ingested at.
IngestionsOf(name) ==
    IF name \in DOMAIN zipline_root
    THEN {c \in DOMAIN zipline_root[name] : ~hidden(c)}
    ELSE {}

\* C21: load(name, timestamp=T) reads the most recent ingestion whose
\* timestamp is on or before T, never a later one; it raises the 'no data'
\* ValueError when there is no such ingestion and UnknownBundle when name
\* is not registered.
C21_LoadMostRecentOnOrBefore ==
    (pc = "bundles" /\ last.op = "load") =>
        LET eligible == {c \in IngestionsOf(last.name) :
                           from_bundle_ingest_dirname(c).day <= last.timestamp.day}
        IN  IF last.name \notin DOMAIN _bundles
            THEN last.error = UnknownBundle
            ELSE IF eligible = {}
            THEN last.error = "ValueError"
            ELSE /\ last.error = NoError
                 /\ last.timestr = Latest(eligible)

\* A registered session the calendar supports.
InCalendar(session, calendar) ==
    /\ session # None
    /\ calendar.first_session.day <= session.day
    /\ session.day <= calendar.last_session.day

\* C22: the start_session and end_session ingest passes to the bundle's
\* function lie within the calendar's [first_session, last_session]: a
\* registered session that is absent or outside the range, below or above
\* it, is replaced by first_session (start) or last_session (end), and one
\* inside the range is passed unchanged.
C22_SessionsWithinCalendar ==
    (pc = "bundles" /\ last.op = "ingest" /\ last.name \in DOMAIN _bundles) =>
        LET bundle == _bundles[last.name]
            calendar == get_calendar(bundle.calendar_name)
        IN  /\ InCalendar(last.start_session, calendar)
            /\ InCalendar(last.end_session, calendar)
            /\ last.start_session =
                  IF InCalendar(bundle.start_session, calendar)
                  THEN bundle.start_session ELSE calendar.first_session
            /\ last.end_session =
                  IF InCalendar(bundle.end_session, calendar)
                  THEN bundle.end_session ELSE calendar.last_session

\* C23: after every register and unregister call the registry holds
\* exactly the names registered and not unregistered since, each with its
\* latest registration: register maps the name to the bundle given,
\* replacing an earlier one, unregister removes the name, and neither
\* touches another name; unregister and ingest of a name that is not in the
\* registry raise UnknownBundle and leave the registry as it was.
C23_RegistryFollowsCalls ==
    (pc = "bundles" /\ last.op # "") =>
        /\ last.op = "register" =>
              /\ last.error = NoError
              /\ DOMAIN _bundles = DOMAIN last.pre \cup {last.name}
              /\ _bundles[last.name] = last.bundle
              /\ \A n \in DOMAIN _bundles \ {last.name} : _bundles[n] = last.pre[n]
        /\ (last.op = "unregister" /\ last.name \in DOMAIN last.pre) =>
              /\ last.error = NoError
              /\ DOMAIN _bundles = DOMAIN last.pre \ {last.name}
              /\ \A n \in DOMAIN _bundles : _bundles[n] = last.pre[n]
        /\ (last.op \in {"unregister", "ingest"} /\ last.name \notin DOMAIN last.pre) =>
              /\ last.error = UnknownBundle
              /\ _bundles = last.pre
        /\ last.op \in {"ingest", "load"} => _bundles = last.pre

C23_Witness ==
    /\ pc = "bundles"
    /\ last.op = "register"
    /\ last.warned
    /\ last.pre[last.name] # last.bundle
    /\ _bundles[last.name] = last.bundle
    /\ Cardinality(DOMAIN _bundles) = 2
    /\ zipline_root # <<>>

\* C30: once the bundle's function has raised during an ingest at t, the
\* ingestion at t cannot be selected: a later load(name), asked at a time
\* no ingestion is later than, reads the latest ingestion that completed,
\* or raises the 'no data' ValueError when none did, and never reads the
\* directory of the failed ingestion.
C30_FailedIngestionNotLoaded ==
    (/\ pc = "bundles"
     /\ last.op = "load"
     /\ last.name \in DOMAIN _bundles
     /\ \A c \in IngestionsOf(last.name) :
           from_bundle_ingest_dirname(c).day <= last.timestamp.day)
    => LET completed == {c \in IngestionsOf(last.name) :
                           zipline_root[last.name][c] = IngestedData}
       IN  IF completed = {}
           THEN last.error = "ValueError"
           ELSE /\ last.error = NoError
                /\ last.timestr = Latest(completed)
                /\ last.data = IngestedData

(***************************************************************************)
(* The simulation clock (zipline.gens.sim_engine.MinuteSimulationClock, as *)
(* zipline/_tests/test_clock.py constructs and reads it: minute_emission   *)
(* is False throughout)                                                    *)
(***************************************************************************)

SESSION_START == "SESSION_START"

BEFORE_TRADING_START_BAR == "BEFORE_TRADING_START_BAR"

BAR == "BAR"

SESSION_END == "SESSION_END"

\* The sessions of the calendar are the days 1..MaxSessions.
MaxSessions == 2

\* The minutes of a day are 0..DayLength - 1; the market's first minute is
\* minute 1 and its close minute DayLength - 2.
DayLength == 6

\* The timestamp of a minute of a day, in minutes; minute 0 is the
\* session label (midnight).
Minute(day, minute) == day * DayLength + minute

\* The timestamp of a break that does not exist.
NaT == 0 - 1

\* calendar.sessions_in_range(start, end).
sessions_in_range(start, end) == [i \in 1..(end - start + 1) |-> start + i - 1]

\* days_at_time(sessions, t): the minute t of each session's day.
days_at_time(sessions, t) == [i \in 1..Len(sessions) |-> Minute(sessions[i], t)]

\* The clock the constructor builds.
MinuteSimulationClock(sessions, market_opens, market_closes, before_trading_start_minutes, break_starts, break_ends) ==
    [sessions |-> sessions,
     market_opens |-> market_opens,
     market_closes |-> market_closes,
     before_trading_start_minutes |-> before_trading_start_minutes,
     break_starts |-> break_starts,
     break_ends |-> break_ends,
     minute_emission |-> FALSE]

\* np.arange(start, stop + 1 minute, 1 minute).
arange(start, stop) ==
    IF stop < start THEN <<>> ELSE [i \in 1..(stop - start + 1) |-> start + i - 1]

\* The minutes of a session taken from the open to the close whether or
\* not the market breaks.
MinutesThroughBreak(self, idx) ==
    arange(self.market_opens[idx], self.market_closes[idx])

\* The minutes of session idx: from the open to the close, without the
\* minutes between the last minute before a break and the first after it.
minutes_by_session(self, idx) ==
    IF self.break_starts[idx] = NaT
    THEN arange(self.market_opens[idx], self.market_closes[idx])
    ELSE arange(self.market_opens[idx], self.break_starts[idx])
         \o arange(self.break_ends[idx], self.market_closes[idx])

\* minutes.searchsorted(minute): how many of the minutes precede it.
searchsorted(minutes, minute) ==
    Cardinality({i \in 1..Len(minutes) : minutes[i] < minute})

\* The BAR events of a run of minutes.
_get_minutes_for_list(minutes) ==
    [i \in 1..Len(minutes) |-> [dt |-> minutes[i], evt |-> BAR]]

\* A session's events with BEFORE_TRADING_START_BAR always emitted, after
\* the minutes that precede it.
SessionEventsAlwaysBts(self, idx) ==
    LET regular_minutes == minutes_by_session(self, idx)
        bts_minute == self.before_trading_start_minutes[idx]
        bts_idx == searchsorted(regular_minutes, bts_minute)
    IN  <<[dt |-> Minute(self.sessions[idx], 0), evt |-> SESSION_START]>>
        \o _get_minutes_for_list(SubSeq(regular_minutes, 1, bts_idx))
        \o <<[dt |-> bts_minute, evt |-> BEFORE_TRADING_START_BAR]>>
        \o _get_minutes_for_list(SubSeq(regular_minutes, bts_idx + 1,
                                        Len(regular_minutes)))
        \o <<[dt |-> regular_minutes[Len(regular_minutes)], evt |-> SESSION_END]>>

\* The events the iterator yields for session idx.
SessionEvents(self, idx) ==
    LET regular_minutes == minutes_by_session(self, idx)
        bts_minute == self.before_trading_start_minutes[idx]
        bts_idx == searchsorted(regular_minutes, bts_minute)
    IN  <<[dt |-> Minute(self.sessions[idx], 0), evt |-> SESSION_START]>>
        \o (IF bts_minute > regular_minutes[Len(regular_minutes)]
            THEN _get_minutes_for_list(regular_minutes)
            ELSE _get_minutes_for_list(SubSeq(regular_minutes, 1, bts_idx))
                 \o <<[dt |-> bts_minute, evt |-> BEFORE_TRADING_START_BAR]>>
                 \o _get_minutes_for_list(SubSeq(regular_minutes, bts_idx + 1,
                                                 Len(regular_minutes))))
        \o <<[dt |-> regular_minutes[Len(regular_minutes)], evt |-> SESSION_END]>>

\* list(clock): the sessions' events, session after session.
__iter__(self) ==
    Flatten([idx \in 1..Len(self.sessions) |-> SessionEvents(self, idx)])

\* The clock of a test: the market opens on minute 1 and closes on minute
\* DayLength - 2 of every session, the before-trading-start time is minute
\* bts of the day, and a break, if any, lasts from after minute 2 to before
\* the close minute.
TestClock(sessions, bts, break) ==
    MinuteSimulationClock(
        sessions,
        days_at_time(sessions, 1),
        days_at_time(sessions, DayLength - 2),
        days_at_time(sessions, bts),
        IF break THEN days_at_time(sessions, 2) ELSE [i \in 1..Len(sessions) |-> NaT],
        IF break THEN days_at_time(sessions, DayLength - 2)
                 ELSE [i \in 1..Len(sessions) |-> NaT])

\* The clocks constructed: over every range of sessions, with the
\* before-trading-start time at any minute of the day, with and without a
\* break.
Clocks ==
    UNION { { TestClock(sessions_in_range(start, end), bts, break) :
                end \in start..MaxSessions, bts \in 0..(DayLength - 1),
                break \in BOOLEAN } :
            start \in 1..MaxSessions }

\* A clock is constructed, then iterated to its end.
InitClock ==
    /\ pc = "clock"
    /\ _columns = EmptyColumns
    /\ _screen = None
    /\ _prescreen = None
    /\ _domain = GENERIC
    /\ last = NoCall
    /\ composed = None
    /\ given_screen = None
    /\ _bundles = <<>>
    /\ zipline_root = <<>>
    /\ clock \in Clocks
    /\ all_events = <<>>

\* next(iterator): the iterator yields its next event.
__next__ ==
    /\ pc = "clock"
    /\ Len(all_events) < Len(__iter__(clock))
    /\ all_events' = Append(all_events, __iter__(clock)[Len(all_events) + 1])
    /\ UNCHANGED <<pc, _columns, _screen, _prescreen, _domain, last, composed,
                   given_screen, _bundles, zipline_root, clock>>

NextClock == __next__

SpecClock == InitClock /\ [][NextClock]_vars

(***************************************************************************)
(* Properties of the clock                                                 *)
(***************************************************************************)

\* The iterator has yielded its last event.
Exhausted == pc = "clock" /\ Len(all_events) = Len(__iter__(clock))

\* The trading minutes of the clock's session k: those from the open to the
\* close that do not fall strictly inside a break.
TradingMinutes(k) ==
    {m \in clock.market_opens[k]..clock.market_closes[k] :
        \/ clock.break_starts[k] = NaT
        \/ m <= clock.break_starts[k]
        \/ m >= clock.break_ends[k]}

\* The elements of a set of numbers in increasing order.
RECURSIVE Increasing(_)
Increasing(S) ==
    IF S = {} THEN <<>>
    ELSE LET least == CHOOSE x \in S : \A y \in S : x <= y
         IN  <<least>> \o Increasing(S \ {least})

\* What session k is to show apart from BEFORE_TRADING_START_BAR.
SessionBars(k) ==
    LET minutes == Increasing(TradingMinutes(k))
    IN  <<[dt |-> Minute(clock.sessions[k], 0), evt |-> SESSION_START]>>
        \o [i \in 1..Len(minutes) |-> [dt |-> minutes[i], evt |-> BAR]]
        \o <<[dt |-> minutes[Len(minutes)], evt |-> SESSION_END]>>

IsPrefix(s, t) == Len(s) <= Len(t) /\ s = SubSeq(t, 1, Len(s))

\* The events yielded so far other than BEFORE_TRADING_START_BAR.
EventsButBts ==
    LET Other(e) == e.evt # BEFORE_TRADING_START_BAR
    IN  SelectSeq(all_events, Other)

\* C24: apart from BEFORE_TRADING_START_BAR, the clock yields for each
\* session, in calendar order and one session after the other,
\* SESSION_START stamped with the session label, then one BAR for each
\* trading minute in increasing order, then SESSION_END stamped with the
\* session's last minute; nothing else is yielded and every session is
\* completed.
C24_SessionsInOrder ==
    pc = "clock" =>
        LET expected == Flatten([k \in 1..Len(clock.sessions) |-> SessionBars(k)])
        IN  /\ IsPrefix(EventsButBts, expected)
            /\ Exhausted => EventsButBts = expected

C24_Witness ==
    /\ Exhausted
    /\ Len(clock.sessions) = 2
    /\ clock.break_starts[1] # NaT
    /\ Cardinality({i \in 1..Len(all_events) : all_events[i].evt = BAR})
          = 2 * Cardinality(TradingMinutes(1))
    /\ all_events[Len(all_events)]
          = [dt |-> Minute(2, DayLength - 2), evt |-> SESSION_END]

\* The position in all_events of the k-th event of a kind.
IndexOfKind(kind, k) ==
    CHOOSE i \in 1..Len(all_events) :
        /\ all_events[i].evt = kind
        /\ Cardinality({j \in 1..i : all_events[j].evt = kind}) = k

\* The sessions whose SESSION_END has been yielded.
Ended == 1..Cardinality({i \in 1..Len(all_events) : all_events[i].evt = SESSION_END})

\* The events of the k-th ended session, from SESSION_START to SESSION_END.
EventsOfSession(k) ==
    SubSeq(all_events, IndexOfKind(SESSION_START, k), IndexOfKind(SESSION_END, k))

\* C25: a session whose before-trading-start time is not after its close
\* has exactly one BEFORE_TRADING_START_BAR, stamped with that time: right
\* after SESSION_START when the time precedes the open, and otherwise
\* before SESSION_END, after the BARs of the minutes before that time and
\* before the BARs of the minutes from that time on; a session whose
\* before-trading-start time is after its close has none.
C25_BeforeTradingStart ==
    pc = "clock" =>
        \A k \in Ended :
            LET events == EventsOfSession(k)
                bts == clock.before_trading_start_minutes[k]
                at == {i \in 1..Len(events) : events[i].evt = BEFORE_TRADING_START_BAR}
            IN  IF bts > clock.market_closes[k]
                THEN at = {}
                ELSE /\ Cardinality(at) = 1
                     /\ \A p \in at :
                           /\ events[p].dt = bts
                           /\ 1 < p /\ p < Len(events)
                           /\ bts < clock.market_opens[k] => p = 2
                           /\ \A i \in 1..Len(events) :
                                 events[i].evt = BAR =>
                                    (i < p <=> events[i].dt < bts)

C25_Witness ==
    /\ Exhausted
    /\ Len(clock.sessions) = 2
    /\ clock.before_trading_start_minutes[2] = Minute(2, 3)
    /\ clock.break_starts[2] = Minute(2, 2)
    /\ EventsOfSession(2)[4] = [dt |-> Minute(2, 3), evt |-> BEFORE_TRADING_START_BAR]
    /\ EventsOfSession(2)[5].evt = BAR

(***************************************************************************)
(* Execution styles (zipline/finance/execution.py)                         *)
(***************************************************************************)

\* float('nan'), float('inf') and float('-inf').
NaN == [type |-> "float", num |-> 0, str |-> "nan"]

Inf == [type |-> "float", num |-> 0, str |-> "inf"]

NegInf == [type |-> "float", num |-> 0, str |-> "-inf"]

\* A list of values.
ListOf(items) == [type |-> "list", num |-> 0, str |-> "", items |-> items]

BadOrderParameters == "BadOrderParameters"

\* numpy.isfinite(price): one truth value for a number, an array of them
\* for a list of numbers, TypeError for anything else.
isfinite(price) ==
    IF IsNumber(price)
    THEN [error |-> NoError, scalar |-> TRUE, values |-> <<price.str = "">>]
    ELSE IF /\ price.type = "list"
            /\ \A i \in 1..Len(price.items) : IsNumber(price.items[i])
    THEN [error |-> NoError, scalar |-> FALSE,
          values |-> [i \in 1..Len(price.items) |-> price.items[i].str = ""]]
    ELSE [error |-> "TypeError", scalar |-> FALSE, values |-> <<>>]

\* bool(x) of what isfinite returned: the truth value of an array of one
\* element is that element's, of any other array a ValueError.
truth(x) ==
    IF Len(x.values) = 1
    THEN [error |-> NoError, value |-> x.values[1]]
    ELSE [error |-> "ValueError", value |-> FALSE]

\* price < 0: a number compares by value, a list does not compare with an
\* int.
less_than_zero(price) ==
    IF IsNumber(price)
    THEN [error |-> NoError, value |-> price.str = "" /\ price.num < 0]
    ELSE [error |-> "TypeError", value |-> FALSE]

\* check_stoplimit_prices(price, label): what it raises.
check_stoplimit_prices(price) ==
    IF isfinite(price).error = "TypeError" THEN BadOrderParameters
    ELSE IF truth(isfinite(price)).error # NoError THEN truth(isfinite(price)).error
    ELSE IF ~truth(isfinite(price)).value THEN BadOrderParameters
    ELSE IF less_than_zero(price).error # NoError THEN less_than_zero(price).error
    ELSE IF less_than_zero(price).value THEN BadOrderParameters
    ELSE NoError

\* The execution styles that take a price, and the prices each takes.
LimitStyles == {"LimitOrder", "LimitOnOpenOrder", "LimitOnCloseOrder"}

OrderStyles == LimitStyles \cup {"StopOrder", "StopLimitOrder"}

TakesLimit(style) == style \in LimitStyles \cup {"StopLimitOrder"}

TakesStop(style) == style \in {"StopOrder", "StopLimitOrder"}

\* style(limit_price=..., stop_price=...): the __init__ of LimitOrder
\* (inherited by the on-open and on-close styles), StopOrder and
\* StopLimitOrder; a price the style does not take is None.
order_result(style, limit_price, stop_price) ==
    LET limit_error == IF TakesLimit(style)
                       THEN check_stoplimit_prices(limit_price) ELSE NoError
        stop_error == IF TakesStop(style)
                      THEN check_stoplimit_prices(stop_price) ELSE NoError
    IN  IF limit_error # NoError THEN Raise(limit_error)
        ELSE IF stop_error # NoError THEN Raise(stop_error)
        ELSE Return([style |-> style, limit_price |-> limit_price,
                     stop_price |-> stop_price])

\* The prices given to the styles.
Prices ==
    { PyInt(0 - 1), PyInt(0), PyInt(5), PyFloat(0 - 1), PyFloat(0), PyFloat(5),
      NaN, Inf, NegInf, PyStr("5"), NoneValue, PyFunction,
      ListOf(<<PyFloat(5)>>), ListOf(<<NaN>>), ListOf(<<PyFloat(5), PyFloat(5)>>) }

NoOrder ==
    [op |-> "", style |-> "", limit_price |-> NoneValue, stop_price |-> NoneValue,
     error |-> NoError, returned |-> None]

\* A style and its prices are drawn, then the style is constructed.
InitOrders ==
    /\ pc = "orders"
    /\ _columns = EmptyColumns
    /\ _screen = None
    /\ _prescreen = None
    /\ _domain = GENERIC
    /\ last \in {[NoOrder EXCEPT !.style = style,
                                 !.limit_price = IF TakesLimit(style) THEN limit
                                                 ELSE NoneValue,
                                 !.stop_price = IF TakesStop(style) THEN stop
                                                ELSE NoneValue] :
                    style \in OrderStyles, limit \in Prices, stop \in Prices}
    /\ composed = None
    /\ given_screen = None
    /\ _bundles = <<>>
    /\ zipline_root = <<>>
    /\ clock = None
    /\ all_events = <<>>

Construct_order ==
    /\ pc = "orders"
    /\ last.op = ""
    /\ LET res == order_result(last.style, last.limit_price, last.stop_price)
       IN  last' = [last EXCEPT !.op = "__init__", !.error = res.error,
                                !.returned = res.returned]
    /\ UNCHANGED <<pc, _columns, _screen, _prescreen, _domain, composed,
                   given_screen, _bundles, zipline_root, clock, all_events>>

NextOrders == Construct_order

SpecOrders == InitOrders /\ [][NextOrders]_vars

\* A price the styles are to accept: a finite number that is not negative.
GoodPrice(price) == IsNumber(price) /\ price.str = "" /\ price.num >= 0

\* The prices the style of the latest construction takes.
PricesTaken ==
    (IF TakesLimit(last.style) THEN {last.limit_price} ELSE {})
        \cup (IF TakesStop(last.style) THEN {last.stop_price} ELSE {})

\* C26: constructing a LimitOrder, StopOrder or StopLimitOrder, or an
\* on-open or on-close limit style, raises BadOrderParameters when a price
\* it takes is NaN, infinite, negative or not a number, one bad price of
\* StopLimitOrder's two being enough, and succeeds when every price it
\* takes is zero or a positive finite number.
C26_BadPricesRejected ==
    (pc = "orders" /\ last.op = "__init__") =>
        IF \A p \in PricesTaken : GoodPrice(p)
        THEN /\ last.error = NoError
             /\ last.returned.limit_price = last.limit_price
             /\ last.returned.stop_price = last.stop_price
        ELSE last.error = BadOrderParameters

====
